---- MODULE Spec2Model ----
(***************************************************************************)
(* A model of db-seed-ai: the schema orderer (internal/schema), the        *)
(* model-output recovery parser (internal/generator) and the seed run      *)
(* that drives them (cmd, internal/tui).                                   *)
(*                                                                         *)
(* Each program is modelled with its own specification:                    *)
(*   SpecTopo  ParseFile: tables are declared, then topologicalSort runs   *)
(*             as the depth-first search of the source, one call or        *)
(*             return per step;                                            *)
(*   SpecJSON  parseJSONResponse, one pass of the pipeline per step;       *)
(*   SpecSeed  the per-table loop of runSeed, runSeedPipeline and          *)
(*             runValidate;                                                *)
(*   SpecInsert  one call of the inserter;                                 *)
(*   SpecTUI   the Update loop of the terminal front-end;                  *)
(*   the others apply one function of the schema parser to one input.      *)
(***************************************************************************)
EXTENDS Integers, Sequences, FiniteSets, TLC

VARIABLES
    \* ---- schema.ParseFile / topologicalSort
    tables,     \* []*Table as parseTables built it; a table is named by its index
    order,      \* var order []*Table: indices into tables
    visited,    \* visited map[string]bool, as the set of names mapped to true
    stack,      \* the call stack of visit: frames [t, k], k the next dep to visit
    ti,         \* position of the loop `for _, t := range tables`
    tpc,        \* "parse", "sort" or "done" ("idle" when another program runs)
    perr,       \* the error ParseFile returns ("unset" until it returns)
    \* ---- generator.parseJSONResponse
    input,      \* the argument raw as the caller passed it
    raw,        \* the local raw, reassigned by the marker and fence passes
    jsonStr,    \* the local jsonStr
    rows,       \* the rows returned (Nil with an error)
    jerr,       \* the error returned (Nil without one)
    jpc,        \* "think", "fence", "find", "repair", "decode", "salvage",
                \* then "done" or "failed"
    \* ---- a run over the tables: runSeed, runSeedPipeline, runValidate
    cfg,        \* the run: driver, flags, number of tables in the order
    si,         \* position of the loop over the order
    spc,        \* "open", "gen", "insert", then "done", "exit", "errmsg" or "panic"
    parsed,     \* the rows parsed for the table in hand
    bi,         \* i of the batch loop
    generated,  \* the tables the generation step was called for, in call order
    inserted,   \* rows committed, per table
    dbops,      \* what the run asked of the database, in call order: an open,
                \* a reference-ID query or an INSERT transaction per entry
    errs        \* what the run reported, [t, what] per failure: the allErrs of
                \* runValidate, the line runSeed writes to stderr before
                \* os.Exit(1), the error of the seedErrMsg of runSeedPipeline

VARIABLES
    \* ---- inserter: InsertBatch, SQLiteInserter.Insert, PostgresInserter.Insert
    icfg,       \* the call: which function, len(rows), batchSize
    ipc,        \* where the call stands
    ioff,       \* i of the batch loop; the batch in hand is rows[ioff:iend]
    iend,
    itotal,     \* total of Insert
    itx,        \* rows executed in the open transaction, by index
    idb,        \* rows the database holds committed, by index
    ilast,      \* (n, err) of the last insertBatch call
    iret        \* (n, err) the call returned

VARIABLES
    \* ---- one function of internal/schema applied to one input
    arg,        \* the input
    res,        \* what the calls made so far returned, in call order
    ppc         \* the function under way, "idle" when none is

VARIABLES
    \* ---- internal/tui: the terminal front-end
    model,      \* the tui.Model m the program holds: the fields Update reads or
                \* writes for the pipeline, the preview and the tabs
    cmds,       \* the commands under way, each on its own goroutine: how many
                \* runSeedPipeline calls and how many preview functions
    inbox,      \* the messages returned by commands and not yet handled
    ui,         \* "run", or "quit" once Update returned tea.Quit
    started     \* the startSeeding calls made so far

topoVars == <<tables, order, visited, stack, ti, tpc, perr>>

jsonVars == <<input, raw, jsonStr, rows, jerr, jpc>>

seedVars == <<cfg, si, spc, parsed, bi, generated, inserted, dbops, errs>>

insVars == <<icfg, ipc, ioff, iend, itotal, itx, idb, ilast, iret>>

pureVars == <<arg, res, ppc>>

tuiVars == <<model, cmds, inbox, ui, started>>

vars == <<tables, order, visited, stack, ti, tpc, perr,
          input, raw, jsonStr, rows, jerr, jpc,
          cfg, si, spc, parsed, bi, generated, inserted, dbops, errs,
          icfg, ipc, ioff, iend, itotal, itx, idb, ilast, iret,
          arg, res, ppc,
          model, cmds, inbox, ui, started>>

\* what a step of one program leaves alone: the state of the others
notTopo == <<jsonVars, seedVars, insVars, pureVars, tuiVars>>
notJSON == <<topoVars, seedVars, insVars, pureVars, tuiVars>>
notSeed == <<topoVars, jsonVars, insVars, pureVars, tuiVars>>
notIns  == <<topoVars, jsonVars, seedVars, pureVars, tuiVars>>
notPure == <<topoVars, jsonVars, seedVars, insVars, tuiVars>>
notTui  == <<topoVars, jsonVars, seedVars, insVars, pureVars>>

Nil == "nil"

-----------------------------------------------------------------------------
(* Bounds of the model *)

\* tables declared in one schema text
MaxTables == 3
\* columns declared in one schema text, over all its tables
MaxCols == 3

\* The names a declaration can use. The sort compares names only for equality,
\* so the i-th declared table takes one of the first i names.
TableNames == <<"a", "b", "c">>

Min(x, y) == IF x < y THEN x ELSE y

NameSet == {TableNames[i] : i \in 1..Len(TableNames)}

\* the recursion of visit is at most as deep as there are distinct names; the
\* guard below keeps the state space finite when a changed visit recurses on
MaxDepth == MaxTables + 1

-----------------------------------------------------------------------------
(* internal/schema: Table, Column, DependsOn *)

\* Column.ForeignKey: the name of the referenced table, or Nil
Column(fk) == [ForeignKey |-> fk]

Table(name) == [Name |-> name, Columns |-> <<>>]

RECURSIVE DependsOnFrom(_, _, _)
\* the loop of DependsOn from column k on, `out` built so far
DependsOnFrom(cols, k, out) ==
    IF k > Len(cols) THEN out
    ELSE LET fk == cols[k].ForeignKey
             seen == {out[i] : i \in 1..Len(out)}
         IN  IF fk # Nil /\ fk \notin seen
             THEN DependsOnFrom(cols, k + 1, Append(out, fk))
             ELSE DependsOnFrom(cols, k + 1, out)

RECURSIVE DependsOnLastFrom(_, _, _)
DependsOnLastFrom(cols, k, out) ==
    IF k > Len(cols) THEN out
    ELSE LET fk == cols[k].ForeignKey
         IN  IF fk # Nil
             THEN DependsOnLastFrom(cols, k + 1, <<fk>>)
             ELSE DependsOnLastFrom(cols, k + 1, out)

\* DependsOn with `out = []string{ref}` for `out = append(out, ref)`
DependsOnLast(t) == DependsOnLastFrom(t.Columns, 1, <<>>)

\* Table.DependsOn
DependsOn(t) == DependsOnFrom(t.Columns, 1, <<>>)

-----------------------------------------------------------------------------
(* internal/schema: topologicalSort *)

\* the names that byName has a key for
Declared(tbls) == {tbls[i].Name : i \in 1..Len(tbls)}

\* byName[name]: `byName[t.Name] = t` in slice order, so the last table of a
\* name stays
ByName(tbls, name) ==
    CHOOSE i \in 1..Len(tbls) :
        /\ tbls[i].Name = name
        /\ \A j \in (i + 1)..Len(tbls) : tbls[j].Name # name

\* visit(name) without the early mark
VisitNoMark(tbls, name, vis, stk) ==
    IF name \in vis THEN [visited |-> vis, stack |-> stk]
    ELSE [visited |-> vis,
          stack   |-> IF name \in Declared(tbls)
                      THEN Append(stk, [t |-> ByName(tbls, name), k |-> 1])
                      ELSE stk]

\* A call visit(name): returns at once when name is marked; else marks it and,
\* when byName has the name, opens a frame that walks its DependsOn
Visit(tbls, name, vis, stk) ==
    IF name \in vis THEN [visited |-> vis, stack |-> stk]
    ELSE [visited |-> vis \cup {name},
          stack   |-> IF name \in Declared(tbls)
                      THEN Append(stk, [t |-> ByName(tbls, name), k |-> 1])
                      ELSE stk]

\* The same function, computed at once: the state of a run is [visited, order]
RECURSIVE VisitRec(_, _, _)
RECURSIVE VisitDepsRec(_, _, _, _)
VisitRec(tbls, name, st) ==
    IF name \in st.visited THEN st
    ELSE LET marked == [st EXCEPT !.visited = @ \cup {name}]
         IN  IF name \in Declared(tbls)
             THEN LET t == ByName(tbls, name)
                      after == VisitDepsRec(tbls, DependsOn(tbls[t]), 1, marked)
                  IN  [after EXCEPT !.order = Append(@, t)]
             ELSE marked

VisitDepsRec(tbls, deps, k, st) ==
    IF k > Len(deps) THEN st
    ELSE VisitDepsRec(tbls, deps, k + 1, VisitRec(tbls, deps[k], st))

RECURSIVE SortFrom(_, _, _)
SortFrom(tbls, i, st) ==
    IF i > Len(tbls) THEN st
    ELSE SortFrom(tbls, i + 1, VisitRec(tbls, tbls[i].Name, st))

topologicalSort(tbls) == SortFrom(tbls, 1, [visited |-> {}, order |-> <<>>]).order

-----------------------------------------------------------------------------
(* ParseFile as a state machine *)

TotalCols(tbls) ==
    LET RECURSIVE Sum(_)
        Sum(i) == IF i = 0 THEN 0 ELSE Len(tbls[i].Columns) + Sum(i - 1)
    IN  Sum(Len(tbls))

\* the recovery parser is not running
JsonIdle ==
    /\ input = <<>>
    /\ raw = <<>>
    /\ jsonStr = <<>>
    /\ rows = Nil
    /\ jerr = Nil
    /\ jpc = "idle"

\* no run over the tables is under way
SeedIdle ==
    /\ cfg = Nil
    /\ si = 1
    /\ spc = "idle"
    /\ parsed = <<>>
    /\ bi = 0
    /\ generated = <<>>
    /\ inserted = <<>>
    /\ dbops = <<>>
    /\ errs = <<>>

\* no insert call is under way
InsIdle ==
    /\ icfg = Nil
    /\ ipc = "idle"
    /\ ioff = 0
    /\ iend = 0
    /\ itotal = 0
    /\ itx = {}
    /\ idb = {}
    /\ ilast = Nil
    /\ iret = Nil

\* no function of the schema package is applied on its own
PureIdle ==
    /\ arg = Nil
    /\ res = <<>>
    /\ ppc = "idle"

\* the terminal front-end is not running
TuiIdle ==
    /\ model = Nil
    /\ cmds = Nil
    /\ inbox = <<>>
    /\ ui = "idle"
    /\ started = 0

InitTopo ==
    /\ tables = <<>>
    /\ order = <<>>
    /\ visited = {}
    /\ stack = <<>>
    /\ ti = 1
    /\ tpc = "parse"
    /\ perr = "unset"
    /\ JsonIdle
    /\ SeedIdle
    /\ InsIdle
    /\ PureIdle
    /\ TuiIdle

\* parseTables: one CREATE TABLE match appends one table
ParseTable ==
    /\ tpc = "parse"
    /\ Len(tables) < MaxTables
    /\ \E i \in 1..Min(Len(tables) + 1, Len(TableNames)) :
          tables' = Append(tables, Table(TableNames[i]))
    /\ UNCHANGED <<order, visited, stack, ti, tpc, perr>>
    /\ UNCHANGED notTopo

\* parseTableBody: one column clause appends one column to the table in hand
ParseColumn ==
    /\ tpc = "parse"
    /\ tables # <<>>
    /\ TotalCols(tables) < MaxCols
    /\ \E fk \in NameSet \cup {Nil} :
          tables' = [tables EXCEPT ![Len(tables)].Columns = Append(@, Column(fk))]
    /\ UNCHANGED <<order, visited, stack, ti, tpc, perr>>
    /\ UNCHANGED notTopo

\* ParseFile calls topologicalSort: byName is built, order and visited are empty
StartSort ==
    /\ tpc = "parse"
    /\ tpc' = "sort"
    /\ UNCHANGED <<tables, order, visited, stack, ti, perr>>
    /\ UNCHANGED notTopo

\* `for _, t := range tables { visit(t.Name) }`
VisitTable ==
    /\ tpc = "sort"
    /\ stack = <<>>
    /\ ti <= Len(tables)
    /\ LET r == Visit(tables, tables[ti].Name, visited, stack)
       IN  visited' = r.visited /\ stack' = r.stack
    /\ ti' = ti + 1
    /\ UNCHANGED <<tables, order, tpc, perr>>
    /\ UNCHANGED notTopo

\* `for _, dep := range t.DependsOn() { visit(dep) }`, one dep
VisitDep ==
    /\ tpc = "sort"
    /\ stack # <<>>
    /\ Len(stack) < MaxDepth
    /\ LET top  == stack[Len(stack)]
           deps == DependsOn(tables[top.t])
       IN  /\ top.k <= Len(deps)
           /\ LET r == Visit(tables, deps[top.k], visited,
                             [stack EXCEPT ![Len(stack)].k = @ + 1])
              IN  visited' = r.visited /\ stack' = r.stack
    /\ UNCHANGED <<tables, order, ti, tpc, perr>>
    /\ UNCHANGED notTopo

\* `order = append(order, t)` and the return of visit
VisitReturn ==
    /\ tpc = "sort"
    /\ stack # <<>>
    /\ LET top  == stack[Len(stack)]
           deps == DependsOn(tables[top.t])
       IN  /\ top.k > Len(deps)
           /\ order' = Append(order, top.t)
    /\ stack' = SubSeq(stack, 1, Len(stack) - 1)
    /\ UNCHANGED <<tables, visited, ti, tpc, perr>>
    /\ UNCHANGED notTopo

\* `return order`, and ParseFile's `return topologicalSort(tables), nil`
SortReturn ==
    /\ tpc = "sort"
    /\ stack = <<>>
    /\ ti > Len(tables)
    /\ tpc' = "done"
    /\ perr' = Nil
    /\ UNCHANGED <<tables, order, visited, stack, ti>>
    /\ UNCHANGED notTopo

NextTopo ==
    \/ ParseTable
    \/ ParseColumn
    \/ StartSort
    \/ VisitTable
    \/ VisitDep
    \/ VisitReturn
    \/ SortReturn

SpecTopo == InitTopo /\ [][NextTopo]_vars

\* the sort is one sequential call: a step that can be taken is taken
SpecTopoFair == SpecTopo /\ WF_vars(VisitTable \/ VisitDep \/ VisitReturn \/ SortReturn \/ StartSort)

\* the stepwise run and the function agree
OrderIsTopologicalSort == tpc = "done" => order = topologicalSort(tables)

-----------------------------------------------------------------------------
(* Go strings: a string is the sequence of its bytes, indices count from 0 *)

\* s[lo:hi]
Slice(s, lo, hi) == SubSeq(s, lo + 1, hi)

\* s[lo:]
SliceFrom(s, lo) == SubSeq(s, lo + 1, Len(s))

\* whether sub stands in s at index i
MatchAt(s, i, sub) ==
    /\ i >= 0
    /\ i + Len(sub) <= Len(s)
    /\ Slice(s, i, i + Len(sub)) = sub

\* strings.Index: the index of the first instance of sub in s, or -1
Index(s, sub) ==
    IF \E i \in 0..Len(s) : MatchAt(s, i, sub)
    THEN CHOOSE i \in 0..Len(s) :
            MatchAt(s, i, sub) /\ \A j \in 0..(i - 1) : ~MatchAt(s, j, sub)
    ELSE -1

\* strings.LastIndex: the index of the last instance of sub in s, or -1
LastIndex(s, sub) ==
    IF \E i \in 0..Len(s) : MatchAt(s, i, sub)
    THEN CHOOSE i \in 0..Len(s) :
            MatchAt(s, i, sub) /\ \A j \in (i + 1)..Len(s) : ~MatchAt(s, j, sub)
    ELSE -1

\* strings.HasSuffix
HasSuffix(s, suffix) == MatchAt(s, Len(s) - Len(suffix), suffix)

\* the white space of the model's alphabet
IsSpace(c) == c \in {" ", "\n", "\r", "\t"}

RECURSIVE TrimLeft(_)
TrimLeft(s) ==
    IF s # <<>> /\ IsSpace(s[1]) THEN TrimLeft(Tail(s)) ELSE s

RECURSIVE TrimRight(_)
TrimRight(s) ==
    IF s # <<>> /\ IsSpace(s[Len(s)]) THEN TrimRight(SubSeq(s, 1, Len(s) - 1)) ELSE s

\* strings.TrimSpace
TrimSpace(s) == TrimRight(TrimLeft(s))

RECURSIVE ReplaceFrom(_, _, _, _)
\* the scan of strings.ReplaceAll from index i on: instances of old (not
\* empty) are taken left to right and do not overlap
ReplaceFrom(s, i, old, new) ==
    IF i >= Len(s) THEN <<>>
    ELSE IF MatchAt(s, i, old)
         THEN new \o ReplaceFrom(s, i + Len(old), old, new)
         ELSE <<s[i + 1]>> \o ReplaceFrom(s, i + 1, old, new)

\* strings.ReplaceAll
ReplaceAll(s, old, new) == ReplaceFrom(s, 0, old, new)

-----------------------------------------------------------------------------
(* encoding/json: Unmarshal into []map[string]interface{}                  *)
(*                                                                         *)
(* The texts of the model are over the alphabet                            *)
(*   [ ] { } , : " space newline < > / grave 1 2 3 and lower-case letters  *)
(* without e, f, l, r, u: no literal (true, false, null), sign, fraction,  *)
(* exponent or escape can be written, and on this alphabet the decoder     *)
(* below accepts the texts json.Unmarshal accepts, with the same values.   *)
(* A decoded value is [kind, v]: a number, a string (its bytes), an        *)
(* object (a map, as the set of its <<key, value>> pairs) or an array.     *)

Digits == {"1", "2", "3"}

DigitVal(c) == CASE c = "1" -> 1 [] c = "2" -> 2 [] c = "3" -> 3

Num(n) == [kind |-> "num", v |-> n]
Str(s) == [kind |-> "str", v |-> s]
Obj(m) == [kind |-> "obj", v |-> m]
Arr(a) == [kind |-> "arr", v |-> a]

\* m[k] = v on a map: a repeated key keeps the last value
MapPut(m, k, v) == {p \in m : p[1] # k} \cup {<<k, v>>}

\* a step of the decoder: ok, the position after what was read, its value
Read(i, val) == [ok |-> TRUE, next |-> i, val |-> val]
Bad == [ok |-> FALSE, next |-> 0, val |-> Nil]

RECURSIVE SkipSpace(_, _)
SkipSpace(s, i) ==
    IF i <= Len(s) /\ IsSpace(s[i]) THEN SkipSpace(s, i + 1) ELSE i

RECURSIVE ReadString(_, _, _)
\* the bytes of a string after its opening quote, up to the closing quote; a
\* control character inside a string is a syntax error
ReadString(s, i, acc) ==
    IF i > Len(s) THEN Bad
    ELSE IF s[i] = "\"" THEN Read(i + 1, acc)
    ELSE IF s[i] = "\n" THEN Bad
    ELSE ReadString(s, i + 1, Append(acc, s[i]))

RECURSIVE ReadNumber(_, _, _)
ReadNumber(s, i, n) ==
    IF i <= Len(s) /\ s[i] \in Digits
    THEN ReadNumber(s, i + 1, 10 * n + DigitVal(s[i]))
    ELSE Read(i, Num(n))

RECURSIVE ReadValue(_, _)
RECURSIVE ReadMembers(_, _, _)
RECURSIVE ReadElements(_, _, _)

\* a JSON value at position i (1-based), white space before it skipped
ReadValue(s, i0) ==
    LET i == SkipSpace(s, i0)
    IN  IF i > Len(s) THEN Bad
        ELSE IF s[i] = "{"
             THEN LET j == SkipSpace(s, i + 1)
                  IN  IF j <= Len(s) /\ s[j] = "}" THEN Read(j + 1, Obj({}))
                      ELSE ReadMembers(s, j, {})
        ELSE IF s[i] = "["
             THEN LET j == SkipSpace(s, i + 1)
                  IN  IF j <= Len(s) /\ s[j] = "]" THEN Read(j + 1, Arr(<<>>))
                      ELSE ReadElements(s, j, <<>>)
        ELSE IF s[i] = "\""
             THEN LET r == ReadString(s, i + 1, <<>>)
                  IN  IF r.ok THEN Read(r.next, Str(r.val)) ELSE Bad
        ELSE IF s[i] \in Digits THEN ReadNumber(s, i, 0)
        ELSE Bad

\* "key": value pairs from position i on, up to the closing brace
ReadMembers(s, i, m) ==
    IF i > Len(s) \/ s[i] # "\"" THEN Bad
    ELSE LET k == ReadString(s, i + 1, <<>>)
         IN  IF ~k.ok THEN Bad
             ELSE LET c == SkipSpace(s, k.next)
                  IN  IF c > Len(s) \/ s[c] # ":" THEN Bad
                      ELSE LET v == ReadValue(s, c + 1)
                           IN  IF ~v.ok THEN Bad
                               ELSE LET e  == SkipSpace(s, v.next)
                                        m2 == MapPut(m, k.val, v.val)
                                    IN  IF e > Len(s) THEN Bad
                                        ELSE IF s[e] = "}" THEN Read(e + 1, Obj(m2))
                                        ELSE IF s[e] = ","
                                             THEN ReadMembers(s, SkipSpace(s, e + 1), m2)
                                        ELSE Bad

\* values from position i on, up to the closing bracket
ReadElements(s, i, a) ==
    LET v == ReadValue(s, i)
    IN  IF ~v.ok THEN Bad
        ELSE LET e  == SkipSpace(s, v.next)
                 a2 == Append(a, v.val)
             IN  IF e > Len(s) THEN Bad
                 ELSE IF s[e] = "]" THEN Read(e + 1, Arr(a2))
                 ELSE IF s[e] = "," THEN ReadElements(s, SkipSpace(s, e + 1), a2)
                 ELSE Bad

\* json.Unmarshal([]byte(s), &rows): a syntax error when s is not one JSON
\* value, a type error when the value is not an array of objects; else the
\* maps of the array, in order
Unmarshal(s) ==
    LET v == ReadValue(s, 1)
    IN  IF ~v.ok \/ SkipSpace(s, v.next) # Len(s) + 1
        THEN [err |-> "syntax", rows |-> Nil]
        ELSE IF v.val.kind # "arr"
                \/ \E k \in 1..Len(v.val.v) : v.val.v[k].kind # "obj"
        THEN [err |-> "type", rows |-> Nil]
        ELSE [err |-> Nil, rows |-> [k \in 1..Len(v.val.v) |-> v.val.v[k].v]]

-----------------------------------------------------------------------------
(* internal/generator: parseJSONResponse and its passes *)

OpenThink  == <<"<", "t", "h", "i", "n", "k", ">">>
CloseThink == <<"<", "/", "t", "h", "i", "n", "k", ">">>
\* the byte 0x60 of a code fence is written "'": a string of the module cannot
\* hold the grave accent, and no text of the model holds an apostrophe
Tick       == "'"
Fence      == <<Tick, Tick, Tick>>
FenceJSON  == Fence \o <<"j", "s", "o", "n">>

\* the marker pass that takes the two markers out and keeps what they enclose
StripThinkMarkersOnly(raw0) ==
    TrimSpace(ReplaceAll(ReplaceAll(TrimSpace(raw0), CloseThink, <<>>), OpenThink, <<>>))

\* the marker pass that, with an opening marker alone, takes the marker out
\* and keeps what follows it
StripThinkKeepsTail(raw0) ==
    LET raw1 == TrimSpace(raw0)
        idx1 == Index(raw1, CloseThink)
        raw2 == IF idx1 # -1 THEN TrimSpace(SliceFrom(raw1, idx1 + 8)) ELSE raw1
        idx2 == Index(raw2, OpenThink)
        endIdx == Index(raw2, CloseThink)
    IN  IF idx2 # -1
        THEN IF endIdx # -1
             THEN TrimSpace(SliceFrom(raw2, endIdx + 8))
             ELSE TrimSpace(Slice(raw2, 0, idx2) \o SliceFrom(raw2, idx2 + 7))
        ELSE raw2

\* lines 117-130: trim; cut through the first closing marker; then, if an
\* opening marker is left, cut through a closing marker after it or, without
\* one, cut from the opening marker to the end
StripThink(raw0) ==
    LET raw1 == TrimSpace(raw0)
        idx1 == Index(raw1, CloseThink)
        raw2 == IF idx1 # -1 THEN TrimSpace(SliceFrom(raw1, idx1 + 8)) ELSE raw1
        idx2 == Index(raw2, OpenThink)
        endIdx == Index(raw2, CloseThink)
    IN  IF idx2 # -1
        THEN IF endIdx # -1
             THEN TrimSpace(SliceFrom(raw2, endIdx + 8))
             ELSE TrimSpace(Slice(raw2, 0, idx2))
        ELSE raw2

\* lines 133-135
StripFences(raw0) ==
    TrimSpace(ReplaceAll(ReplaceAll(raw0, FenceJSON, <<>>), Fence, <<>>))

\* the test of line 140 without `end <= start`
NoArrayNoOrder(raw0) ==
    LET start == Index(raw0, <<"[">>)
        end   == LastIndex(raw0, <<"]">>)
    IN  start = -1 \/ end = -1

\* lines 138-140: whether no JSON array is found in raw
NoArray(raw0) ==
    LET start == Index(raw0, <<"[">>)
        end   == LastIndex(raw0, <<"]">>)
    IN  start = -1 \/ end = -1 \/ end <= start

\* line 151: raw[start : end+1]
ArrayText(raw0) ==
    Slice(raw0, Index(raw0, <<"[">>), LastIndex(raw0, <<"]">>) + 1)

\* repairJSON
repairJSON(s0) ==
    LET s1 == ReplaceAll(s0, <<",", "]">>, <<"]">>)
        s2 == ReplaceAll(s1, <<",", " ", "]">>, <<"]">>)
        s3 == ReplaceAll(s2, <<" ", ",", "]">>, <<"]">>)
        s4 == ReplaceAll(s3, <<",", "}">>, <<"}">>)
        s5 == ReplaceAll(s4, <<",", " ", "}">>, <<"}">>)
    IN  TrimSpace(s5)

\* removeIncompleteLastObject
removeIncompleteLastObject(s) ==
    LET lastBrace == LastIndex(s, <<"}">>)
    IN  IF lastBrace = -1 THEN <<"[", "]">>
        ELSE LET beforeLast == Slice(s, 0, lastBrace)
                 secondLastBrace == LastIndex(beforeLast, <<"}">>)
             IN  IF secondLastBrace = -1 THEN s
                 ELSE LET after0 == TrimSpace(SliceFrom(s, secondLastBrace + 1))
                          afterSecond ==
                              IF Len(after0) > 0 /\ after0[1] = ","
                              THEN TrimSpace(SliceFrom(after0, 1))
                              ELSE after0
                      IN  IF Len(afterSecond) > 2
                             /\ ~HasSuffix(afterSecond, <<"}", "]">>)
                          THEN Slice(s, 0, secondLastBrace + 1) \o <<"]">>
                          ELSE s

ErrNoArray   == "no JSON array found in response"
ErrUnmarshal == "unmarshal JSON"

Failed(e) == [rows |-> Nil, err |-> e]
Rows(r)   == [rows |-> r, err |-> Nil]

\* lines 156-171: decode; after a failure, salvage and decode once more
DecodeOrSalvage(jsonStr0) ==
    LET first == Unmarshal(jsonStr0)
    IN  IF first.err = Nil THEN Rows(first.rows)
        ELSE LET second == Unmarshal(removeIncompleteLastObject(jsonStr0))
             IN  IF second.err = Nil THEN Rows(second.rows)
                 ELSE Failed(ErrUnmarshal)

\* parseJSONResponse (and ParseJSONRows, which only delegates to it)
parseJSONResponse(raw0) ==
    LET raw1 == StripFences(StripThink(raw0))
    IN  IF NoArray(raw1) THEN Failed(ErrNoArray)
        ELSE DecodeOrSalvage(repairJSON(ArrayText(raw1)))

-----------------------------------------------------------------------------
(* The texts handed to parseJSONResponse *)

\* records of one payload
MaxRecs == 3

Quote == "\""

\* a record is the sequence of its <<key, value>> fields
RecX(n) == << <<(<<"x">>), Num(n)>> >>
RecStrings ==
    << <<(<<"a">>), Str(<<"b", ",", "]">>)>>, <<(<<"k">>), Str(<<",", "}">>)>> >>

RecordPool == {RecX(1), RecX(2), RecX(3), RecStrings}

RecLists == UNION {[1..n -> RecordPool] : n \in 0..MaxRecs}

DigitOf(n) == CASE n = 1 -> "1" [] n = 2 -> "2" [] n = 3 -> "3"

EncValue(v) ==
    IF v.kind = "num" THEN <<DigitOf(v.v)>> ELSE <<Quote>> \o v.v \o <<Quote>>

EncField(f) == <<Quote>> \o f[1] \o <<Quote, ":">> \o EncValue(f[2])

RECURSIVE Join(_, _)
\* the texts of a sequence, sep between them
Join(texts, sep) ==
    IF texts = <<>> THEN <<>>
    ELSE IF Len(texts) = 1 THEN texts[1]
    ELSE texts[1] \o sep \o Join(Tail(texts), sep)

\* the text of a record; `comma` puts a separator before its closing brace
EncRecord(rec, comma) ==
    <<"{">> \o Join([i \in 1..Len(rec) |-> EncField(rec[i])], <<",">>)
            \o (IF comma THEN <<",">> ELSE <<>>) \o <<"}">>

\* how a payload is laid out: what follows "[", separates records, precedes "]"
Compact == [open |-> <<>>,     sep |-> <<",">>,       close |-> <<>>]
Padded  == [open |-> <<" ">>,  sep |-> <<",", " ">>,  close |-> <<" ">>]
Lines   == [open |-> <<"\n">>, sep |-> <<",", "\n">>, close |-> <<"\n">>]

Styles == {Compact, Padded, Lines}

\* the well-formed array of the records recs
Payload(recs, st) ==
    <<"[">> \o st.open
            \o Join([i \in 1..Len(recs) |-> EncRecord(recs[i], FALSE)], st.sep)
            \o st.close \o <<"]">>

\* Payload with a separator after the last record ("after") or immediately
\* before the closing bracket ("before")
TrailingInArray(recs, st, where) ==
    <<"[">> \o st.open
            \o Join([i \in 1..Len(recs) |-> EncRecord(recs[i], FALSE)], st.sep)
            \o (IF where = "after" THEN <<",">> \o st.close ELSE st.close \o <<",">>)
            \o <<"]">>

\* Payload with a separator before the closing brace of record k
TrailingInRecord(recs, st, k) ==
    <<"[">> \o st.open
            \o Join([i \in 1..Len(recs) |-> EncRecord(recs[i], i = k)], st.sep)
            \o st.close \o <<"]">>

\* Payload cut inside its last record: the record's closing brace and all
\* that follows it are missing; `closed` puts the closing bracket back
Truncated(recs, st, closed) ==
    LET whole == <<"[">> \o st.open
                 \o Join([i \in 1..Len(recs) |-> EncRecord(recs[i], FALSE)], st.sep)
    IN  SubSeq(whole, 1, Len(whole) - 1) \o (IF closed THEN <<"]">> ELSE <<>>)

\* the values a payload of recs stands for
MapOf(rec) == {<<rec[i][1], rec[i][2]>> : i \in 1..Len(rec)}
MapsOf(recs) == [i \in 1..Len(recs) |-> MapOf(recs[i])]

\* reasoning texts: plain, with brackets, a brace, a fence, a nested opening
\* marker, a whole payload
Reasonings ==
    { <<"o", "k">>,
      <<"[", "1", "]">>,
      <<"{", " ", "[">>,
      Fence \o <<"]">>,
      <<"i">> \o OpenThink \o <<"[">>,
      Payload(<<RecX(3)>>, Compact) }

\* texts without an array: no bracket, one bracket, the brackets reversed
Proses ==
    { <<>>,
      <<"o", "k">>,
      <<"[", "{", Quote, "x", Quote, ":", "1", "}">>,
      <<"{", Quote, "x", Quote, ":", "1", "}", "]">>,
      <<"]", " ", "[">>,
      <<"[", "{", Quote, "x", Quote, "}", "]">>,
      <<"[", "o", "k", "]">> }

WellFormedInputs == {Payload(recs, st) : recs \in RecLists, st \in Styles}

TrailingInputs ==
    {TrailingInArray(recs, st, w) :
        recs \in RecLists \ {<<>>}, st \in Styles, w \in {"after", "before"}}
    \cup UNION {{TrailingInRecord(recs, st, k) : k \in 1..Len(recs)} :
                    recs \in RecLists, st \in {Compact, Lines}}

TruncatedInputs ==
    {Truncated(recs, st, c) :
        recs \in RecLists \ {<<>>}, st \in {Compact, Lines}, c \in BOOLEAN}

ThinkInputs ==
    {OpenThink \o r \o CloseThink \o Payload(recs, Compact) :
        r \in Reasonings, recs \in RecLists}

OpenOnlyInputs ==
    {Payload(<<RecX(1)>>, Compact) \o <<"\n">> \o OpenThink \o r : r \in Reasonings}
    \cup {OpenThink \o r \o Payload(<<RecX(1)>>, Compact) : r \in Reasonings}

FencedInputs ==
    {FenceJSON \o <<"\n">> \o Payload(recs, Lines) \o <<"\n">> \o Fence :
        recs \in RecLists}

Inputs ==
    WellFormedInputs \cup TrailingInputs \cup TruncatedInputs \cup ThinkInputs
        \cup OpenOnlyInputs \cup FencedInputs \cup Proses

-----------------------------------------------------------------------------
(* parseJSONResponse as a state machine: one pass per step *)

\* ParseFile is not running
TopoIdle ==
    /\ tables = <<>>
    /\ order = <<>>
    /\ visited = {}
    /\ stack = <<>>
    /\ ti = 1
    /\ tpc = "idle"
    /\ perr = "unset"

InitJSON ==
    /\ input \in Inputs
    /\ raw = input
    /\ jsonStr = <<>>
    /\ rows = Nil
    /\ jerr = Nil
    /\ jpc = "think"
    /\ TopoIdle
    /\ SeedIdle
    /\ InsIdle
    /\ PureIdle
    /\ TuiIdle

\* lines 117-130
PassThink ==
    /\ jpc = "think"
    /\ raw' = StripThink(raw)
    /\ jpc' = "fence"
    /\ UNCHANGED <<input, jsonStr, rows, jerr>>
    /\ UNCHANGED notJSON

\* lines 133-135
PassFences ==
    /\ jpc = "fence"
    /\ raw' = StripFences(raw)
    /\ jpc' = "find"
    /\ UNCHANGED <<input, jsonStr, rows, jerr>>
    /\ UNCHANGED notJSON

\* lines 138-149: no array, the call returns the error
FindNone ==
    /\ jpc = "find"
    /\ NoArray(raw)
    /\ jerr' = ErrNoArray
    /\ rows' = Nil
    /\ jpc' = "failed"
    /\ UNCHANGED <<input, raw, jsonStr>>
    /\ UNCHANGED notJSON

\* line 151
FindArray ==
    /\ jpc = "find"
    /\ ~NoArray(raw)
    /\ jsonStr' = ArrayText(raw)
    /\ jpc' = "repair"
    /\ UNCHANGED <<input, raw, rows, jerr>>
    /\ UNCHANGED notJSON

\* line 154
PassRepair ==
    /\ jpc = "repair"
    /\ jsonStr' = repairJSON(jsonStr)
    /\ jpc' = "decode"
    /\ UNCHANGED <<input, raw, rows, jerr>>
    /\ UNCHANGED notJSON

\* line 157, decoded: line 171 returns the rows
DecodeOk ==
    /\ jpc = "decode"
    /\ Unmarshal(jsonStr).err = Nil
    /\ rows' = Unmarshal(jsonStr).rows
    /\ jpc' = "done"
    /\ UNCHANGED <<input, raw, jsonStr, jerr>>
    /\ UNCHANGED notJSON

\* line 157, not decoded: line 159 cuts the last object off
DecodeFails ==
    /\ jpc = "decode"
    /\ Unmarshal(jsonStr).err # Nil
    /\ jsonStr' = removeIncompleteLastObject(jsonStr)
    /\ jpc' = "salvage"
    /\ UNCHANGED <<input, raw, rows, jerr>>
    /\ UNCHANGED notJSON

\* line 160, decoded after the cut
SalvageOk ==
    /\ jpc = "salvage"
    /\ Unmarshal(jsonStr).err = Nil
    /\ rows' = Unmarshal(jsonStr).rows
    /\ jpc' = "done"
    /\ UNCHANGED <<input, raw, jsonStr, jerr>>
    /\ UNCHANGED notJSON

\* lines 160-169, not decoded after the cut either
SalvageFails ==
    /\ jpc = "salvage"
    /\ Unmarshal(jsonStr).err # Nil
    /\ jerr' = ErrUnmarshal
    /\ rows' = Nil
    /\ jpc' = "failed"
    /\ UNCHANGED <<input, raw, jsonStr>>
    /\ UNCHANGED notJSON

NextJSON ==
    \/ PassThink
    \/ PassFences
    \/ FindNone
    \/ FindArray
    \/ PassRepair
    \/ DecodeOk
    \/ DecodeFails
    \/ SalvageOk
    \/ SalvageFails

SpecJSON == InitJSON /\ [][NextJSON]_vars

\* the call has returned
Returned == jpc \in {"done", "failed"}

\* the stepwise run and the function agree
ResultIsParseJSONResponse ==
    Returned => [rows |-> rows, err |-> jerr] = parseJSONResponse(input)

-----------------------------------------------------------------------------
(* A run over the tables of a schema: runSeed and runValidate of the       *)
(* command line, runSeedPipeline of the terminal front-end.  The run has   *)
(* the tables in the order the schema load returned; what the generation   *)
(* step returns for a table is any of Responses.                           *)

\* tables in the schema of one run
MaxRunTables == 3

\* what the model may answer: two payloads, a text without a payload, a
\* payload that no repair makes decodable
Responses ==
    { Payload(<<RecX(1), RecX(2)>>, Compact),
      Payload(<<RecX(1), RecX(2), RecX(3)>>, Lines),
      <<"o", "k">>,
      <<"[", "{", Quote, "x", Quote, "}", "]">> }

\* ParseJSONRows on each answer
ParsedResponses == [resp \in Responses |-> parseJSONResponse(resp)]

\* --batch-size takes any integer
BatchSizes == {-1, 0, 1, 2}

\* schema.Column with all its fields
FullColumn(name, type, pk, fk) ==
    [Name |-> name, Type |-> type, NotNull |-> FALSE, Unique |-> FALSE,
     PrimaryKey |-> pk, CheckIn |-> <<>>, ForeignKey |-> fk]

\* the name of the i-th table of a schema text; a text with more tables than
\* names declares the last name again
RunTableName(i) == TableNames[Min(i, Len(TableNames))]

\* `CREATE TABLE t (id SERIAL PRIMARY KEY, ref INT [REFERENCES fk(id)])`
RunTable(i, fk) ==
    [Name    |-> RunTableName(i),
     Columns |-> <<FullColumn("id", "integer", TRUE, Nil),
                   FullColumn("ref", "integer", FALSE, fk)>>]

RunSchemas ==
    UNION {{[i \in 1..n |-> RunTable(i, fks[i])] : fks \in [1..n -> NameSet \cup {Nil}]} :
              n \in 1..MaxRunTables}

\* ParseFile on a text that declares tbls: the tables as topologicalSort
\* orders them
ParseFile(tbls) ==
    LET sorted == topologicalSort(tbls)
    IN  [k \in 1..Len(sorted) |-> tbls[sorted[k]]]

\* TableByName: the first table of the name
TableByName(tbls, name) ==
    tbls[CHOOSE i \in 1..Len(tbls) :
            tbls[i].Name = name /\ \A j \in 1..(i - 1) : tbls[j].Name # name]

\* runSeed 154-162: the tables of the run, all of them or the one of --table
RunOrder(tbls, tableName) ==
    IF tableName = Nil THEN tbls ELSE <<TableByName(tbls, tableName)>>

\* runSeed 180 with a --db that does not respect --dry-run
OpensDBWithConn(dryRun, dbConn) == dbConn

\* runSeed 180: `*dbConn != "" && !*dryRun`
OpensDB(dryRun, dbConn) == dbConn /\ ~dryRun

\* the flags runSeed goes on with: it leaves before the loop with neither
\* --db nor --dry-run (lines 142-146)
RunFlags == {f \in [dryRun : BOOLEAN, dbConn : BOOLEAN] : f.dryRun \/ f.dbConn}

\* runSeed over a schema; a --table that the schema does not declare ends
\* the run before the loop (156-160)
SeedRuns ==
    UNION {{[driver |-> "runSeed", dryRun |-> f.dryRun, dbConn |-> f.dbConn,
             batchSize |-> b, tableName |-> only,
             order |-> RunOrder(ParseFile(s), only)] :
                f \in RunFlags, b \in BatchSizes, only \in Declared(s) \cup {Nil}} :
              s \in RunSchemas}

\* s.InsertOrder and s.TableMap of schema.ParseFileToSchema: the tables in
\* dependency order
InsertOrder(tbls) == ParseFile(tbls)

\* runSeedPipeline opens the database before the loop and inserts each
\* table's rows in one InsertBatch call
PipelineRuns ==
    {[driver |-> "runSeedPipeline", dryRun |-> FALSE, dbConn |-> TRUE,
      batchSize |-> 0, tableName |-> Nil, order |-> InsertOrder(s)] :
        s \in RunSchemas}

\* runValidate 268-277: the tables as loadSchema returned them
ValidateRuns ==
    {[driver |-> "runValidate", dryRun |-> FALSE, dbConn |-> FALSE,
      batchSize |-> 0, tableName |-> Nil, order |-> ParseFile(s)] :
        s \in RunSchemas}

\* dbObj != nil (runSeed), db (runSeedPipeline)
HasDB ==
    CASE cfg.driver = "runSeed" -> OpensDB(cfg.dryRun, cfg.dbConn)
      [] cfg.driver = "runSeedPipeline" -> TRUE
      [] OTHER -> FALSE

\* len(order)
NumTables == Len(cfg.order)

InitSeed ==
    /\ cfg \in SeedRuns \cup PipelineRuns \cup ValidateRuns
    /\ si = 1
    /\ spc = "open"
    /\ parsed = <<>>
    /\ bi = 0
    /\ generated = <<>>
    /\ inserted = [t \in 1..NumTables |-> 0]
    /\ dbops = <<>>
    /\ errs = <<>>
    /\ TopoIdle
    /\ JsonIdle
    /\ InsIdle
    /\ PureIdle
    /\ TuiIdle

Report(t, what) == [t |-> t, what |-> what]

\* how a driver leaves on an error: os.Exit(1), or the seedErrMsg it returns
Abort == IF cfg.driver = "runSeedPipeline" THEN "errmsg" ELSE "exit"

\* columnNames: the names of all columns
columnNames(t) == [k \in 1..Len(t.Columns) |-> t.Columns[k].Name]

\* NonAutoColumns without the `len(out) == 0` fallback
NonAutoColumnsStrict(t) ==
    SelectSeq(t.Columns, LAMBDA c : ~(c.PrimaryKey /\ c.Type = "integer"))

\* Table.NonAutoColumns: the columns that are not integer primary keys, or
\* all columns when none is left
NonAutoColumns(t) ==
    LET out == SelectSeq(t.Columns, LAMBDA c : ~(c.PrimaryKey /\ c.Type = "integer"))
    IN  IF Len(out) = 0 THEN t.Columns ELSE out

\* nonAutoColNames
nonAutoColNames(t) ==
    [k \in 1..Len(NonAutoColumns(t)) |-> NonAutoColumns(t)[k].Name]

\* the column list that goes to InsertBatch: colNames of runSeed (214),
\* result.Columns of Generate (28, 36)
InsertColumns(t) ==
    IF cfg.driver = "runSeed" THEN columnNames(t) ELSE nonAutoColNames(t)

\* the reference-ID queries before the generation step (runSeed 196-206,
\* update.go 307-316): one per column with a foreign key, when there is a
\* database; their errors are dropped
Fetches(t) ==
    IF HasDB
    THEN LET fks == SelectSeq(cfg.order[t].Columns, LAMBDA c : c.ForeignKey # Nil)
         IN  [k \in 1..Len(fks) |-> [op |-> "fetch", t |-> t, ref |-> fks[k].ForeignKey]]
    ELSE <<>>

\* one INSERT transaction of InsertBatch for n rows of table t
InsertOp(t, n, ok) ==
    [op |-> "insert", t |-> t, columns |-> InsertColumns(cfg.order[t]), n |-> n, ok |-> ok]

\* runSeed 178-188, update.go 290-295: the database is opened, or is not
SeedOpen ==
    /\ spc = "open"
    /\ spc' = "gen"
    /\ dbops' = IF HasDB THEN Append(dbops, [op |-> "open"]) ELSE dbops
    /\ UNCHANGED <<cfg, si, parsed, bi, generated, inserted, errs>>
    /\ UNCHANGED notSeed

\* inserter.Open fails: runSeed 183-186, update.go 292-294
SeedOpenFails ==
    /\ spc = "open"
    /\ HasDB
    /\ spc' = Abort
    /\ dbops' = Append(dbops, [op |-> "open"])
    /\ errs' = Append(errs, Report(0, "open"))
    /\ UNCHANGED <<cfg, si, parsed, bi, generated, inserted>>
    /\ UNCHANGED notSeed

\* the generation request itself fails: part_000 209-213 and 279-283,
\* update.go 319-322 (Generate returns the client's error)
CallFails ==
    /\ spc = "gen"
    /\ si <= NumTables
    /\ dbops' = dbops \o Fetches(si)
    /\ generated' = Append(generated, si)
    /\ spc' = Abort
    /\ errs' = Append(errs, Report(si, "call"))
    /\ UNCHANGED <<cfg, si, parsed, bi, inserted>>
    /\ UNCHANGED notSeed

\* the answer is not parsed, runSeed (215-219) and runSeedPipeline (319-322,
\* Generate returns the parse error): the run ends
ParseFailsAbort ==
    /\ spc = "gen"
    /\ si <= NumTables
    /\ cfg.driver \in {"runSeed", "runSeedPipeline"}
    /\ \E resp \in Responses : ParsedResponses[resp].err # Nil
    /\ dbops' = dbops \o Fetches(si)
    /\ generated' = Append(generated, si)
    /\ spc' = Abort
    /\ errs' = Append(errs, Report(si, "parse"))
    /\ UNCHANGED <<cfg, si, parsed, bi, inserted>>
    /\ UNCHANGED notSeed

\* the answer is not parsed, runValidate (285-289): the error is kept and the
\* loop goes on
ParseFailsContinue ==
    /\ spc = "gen"
    /\ si <= NumTables
    /\ cfg.driver = "runValidate"
    /\ \E resp \in Responses : ParsedResponses[resp].err # Nil
    /\ generated' = Append(generated, si)
    /\ errs' = Append(errs, Report(si, "parse"))
    /\ si' = si + 1
    /\ UNCHANGED <<cfg, spc, parsed, bi, inserted, dbops>>
    /\ UNCHANGED notSeed

\* the answer is parsed and nothing is to be inserted: runSeed with --dry-run
\* or without a database (222-224)
ParsedNoInsert ==
    /\ spc = "gen"
    /\ si <= NumTables
    /\ cfg.driver = "runSeed"
    /\ cfg.dryRun \/ ~HasDB
    /\ \E resp \in Responses : ParsedResponses[resp].err = Nil
    /\ dbops' = dbops \o Fetches(si)
    /\ generated' = Append(generated, si)
    /\ si' = si + 1
    /\ UNCHANGED <<cfg, spc, parsed, bi, inserted, errs>>
    /\ UNCHANGED notSeed

\* the answer is parsed, runValidate (290-293): the rows are validated, and a
\* table with violations adds to allErrs
ParsedValidate ==
    /\ spc = "gen"
    /\ si <= NumTables
    /\ cfg.driver = "runValidate"
    /\ \E resp \in Responses : ParsedResponses[resp].err = Nil
    /\ generated' = Append(generated, si)
    /\ \E valid \in BOOLEAN :
          errs' = IF valid THEN errs ELSE Append(errs, Report(si, "rows"))
    /\ si' = si + 1
    /\ UNCHANGED <<cfg, spc, parsed, bi, inserted, dbops>>
    /\ UNCHANGED notSeed

\* the answer is parsed and its rows go to the database
ParsedInsert ==
    /\ spc = "gen"
    /\ si <= NumTables
    /\ cfg.driver \in {"runSeed", "runSeedPipeline"}
    /\ ~cfg.dryRun /\ HasDB
    /\ \E resp \in Responses :
          /\ ParsedResponses[resp].err = Nil
          /\ parsed' = ParsedResponses[resp].rows
    /\ dbops' = dbops \o Fetches(si)
    /\ generated' = Append(generated, si)
    /\ bi' = 0
    /\ spc' = "insert"
    /\ UNCHANGED <<cfg, si, inserted, errs>>
    /\ UNCHANGED notSeed

\* runSeed 230-235: end of the batch starting at bi
BatchEnd == Min(bi + cfg.batchSize, Len(parsed))

\* runSeed 230-242, InsertBatch commits the batch parsed[i:end]; an empty
\* batch returns 0 without a transaction (inserter.go 63-65)
BatchCommits ==
    /\ spc = "insert"
    /\ cfg.driver = "runSeed"
    /\ bi < Len(parsed)
    /\ BatchEnd >= bi
    /\ inserted' = [inserted EXCEPT ![si] = @ + (BatchEnd - bi)]
    /\ dbops' = IF BatchEnd > bi
                THEN Append(dbops, InsertOp(si, BatchEnd - bi, TRUE))
                ELSE dbops
    /\ bi' = bi + cfg.batchSize
    /\ UNCHANGED <<cfg, si, spc, parsed, generated, errs>>
    /\ UNCHANGED notSeed

\* runSeed 236-240: InsertBatch fails, its transaction is rolled back and the
\* run exits
BatchFails ==
    /\ spc = "insert"
    /\ cfg.driver = "runSeed"
    /\ bi < Len(parsed)
    /\ BatchEnd > bi
    /\ spc' = "exit"
    /\ dbops' = Append(dbops, InsertOp(si, BatchEnd - bi, FALSE))
    /\ errs' = Append(errs, Report(si, "insert"))
    /\ UNCHANGED <<cfg, si, parsed, bi, generated, inserted>>
    /\ UNCHANGED notSeed

\* runSeed 235: parsed[i:end] with end < i is a run-time panic
BatchPanics ==
    /\ spc = "insert"
    /\ cfg.driver = "runSeed"
    /\ bi < Len(parsed)
    /\ BatchEnd < bi
    /\ spc' = "panic"
    /\ UNCHANGED <<cfg, si, parsed, bi, generated, inserted, dbops, errs>>
    /\ UNCHANGED notSeed

\* runSeed 230, 243-244: the batch loop ends, the next table follows
BatchesDone ==
    /\ spc = "insert"
    /\ cfg.driver = "runSeed"
    /\ bi >= Len(parsed)
    /\ si' = si + 1
    /\ spc' = "gen"
    /\ UNCHANGED <<cfg, parsed, bi, generated, inserted, dbops, errs>>
    /\ UNCHANGED notSeed

\* update.go 325-329: one InsertBatch call commits all rows of the table
PipelineInserts ==
    /\ spc = "insert"
    /\ cfg.driver = "runSeedPipeline"
    /\ inserted' = [inserted EXCEPT ![si] = @ + Len(parsed)]
    /\ dbops' = IF Len(parsed) > 0
                THEN Append(dbops, InsertOp(si, Len(parsed), TRUE))
                ELSE dbops
    /\ si' = si + 1
    /\ spc' = "gen"
    /\ UNCHANGED <<cfg, parsed, bi, generated, errs>>
    /\ UNCHANGED notSeed

\* update.go 325-328: the InsertBatch call fails
PipelineInsertFails ==
    /\ spc = "insert"
    /\ cfg.driver = "runSeedPipeline"
    /\ Len(parsed) > 0
    /\ spc' = "errmsg"
    /\ dbops' = Append(dbops, InsertOp(si, Len(parsed), FALSE))
    /\ errs' = Append(errs, Report(si, "insert"))
    /\ UNCHANGED <<cfg, si, parsed, bi, generated, inserted>>
    /\ UNCHANGED notSeed

\* the loop over the order is over: runSeed 247-252, update.go 332
RunDone ==
    /\ spc = "gen"
    /\ si > NumTables
    /\ cfg.driver \in {"runSeed", "runSeedPipeline"}
    /\ spc' = "done"
    /\ UNCHANGED <<cfg, si, parsed, bi, generated, inserted, dbops, errs>>
    /\ UNCHANGED notSeed

\* runValidate 295-301: exit status 1 when allErrs is not empty
ValidateDone ==
    /\ spc = "gen"
    /\ si > NumTables
    /\ cfg.driver = "runValidate"
    /\ spc' = IF Len(errs) > 0 THEN "exit" ELSE "done"
    /\ UNCHANGED <<cfg, si, parsed, bi, generated, inserted, dbops, errs>>
    /\ UNCHANGED notSeed

NextSeed ==
    \/ SeedOpen
    \/ SeedOpenFails
    \/ CallFails
    \/ ParseFailsAbort
    \/ ParseFailsContinue
    \/ ParsedNoInsert
    \/ ParsedValidate
    \/ ParsedInsert
    \/ BatchCommits
    \/ BatchFails
    \/ BatchPanics
    \/ BatchesDone
    \/ PipelineInserts
    \/ PipelineInsertFails
    \/ RunDone
    \/ ValidateDone

SpecSeed == InitSeed /\ [][NextSeed]_vars

\* a run is one sequential call: a step that can be taken is taken
SpecSeedFair == SpecSeed /\ WF_vars(NextSeed)

-----------------------------------------------------------------------------
(* internal/inserter: one call of InsertBatch, SQLiteInserter.Insert or    *)
(* PostgresInserter.Insert.  Rows are named by their index in the call's   *)
(* rows; any database call of the transaction may fail.                    *)

\* rows given to one call
MaxRows == 3

InsertCalls ==
    {[fn |-> "InsertBatch", rows |-> n, batchSize |-> 0] : n \in 0..MaxRows}
    \cup {[fn |-> f, rows |-> n, batchSize |-> b] :
            f \in {"SQLiteInserter.Insert", "PostgresInserter.Insert"},
            n \in 0..MaxRows, b \in BatchSizes}

\* InsertBatch is one batch of all its rows; Insert starts at its loop
InitInsert ==
    /\ icfg \in InsertCalls
    /\ ipc = IF icfg.fn = "InsertBatch" THEN "enter" ELSE "loop"
    /\ ioff = 0
    /\ iend = icfg.rows
    /\ itotal = 0
    /\ itx = {}
    /\ idb = {}
    /\ ilast = Nil
    /\ iret = Nil
    /\ TopoIdle
    /\ JsonIdle
    /\ SeedIdle
    /\ PureIdle
    /\ TuiIdle

\* a rollback that leaves the executed rows in the table
RollbackKeeps(db, tx) == db \cup tx

\* `defer tx.Rollback()` on a transaction that was not committed: the rows it
\* executed are gone
Rollback(db, tx) == db

\* insertBatch returns (n, err).  InsertBatch hands it to its caller; Insert
\* returns (total, err) on an error and else adds n and moves on by batchSize
BatchReturns(n, err) ==
    /\ ilast' = [n |-> n, err |-> err]
    /\ IF icfg.fn = "InsertBatch"
       THEN /\ iret' = [n |-> n, err |-> err]
            /\ ipc' = "returned"
            /\ UNCHANGED <<itotal, ioff>>
       ELSE IF err # Nil
            THEN /\ iret' = [n |-> itotal, err |-> err]
                 /\ ipc' = "returned"
                 /\ UNCHANGED <<itotal, ioff>>
            ELSE /\ itotal' = itotal + n
                 /\ ioff' = ioff + icfg.batchSize
                 /\ ipc' = "loop"
                 /\ UNCHANGED iret

\* the n insertBatch returns on an error after `count` rows were executed:
\* count in SQLiteInserter (481, 485), 0 elsewhere
ErrCount(count) == IF icfg.fn = "SQLiteInserter.Insert" THEN count ELSE 0

\* Insert: `end := i + batchSize`, capped, and the chunk rows[i:end]; a
\* negative batchSize makes end < i and the slice expression panics
InsertChunk ==
    /\ ipc = "loop"
    /\ ioff < icfg.rows
    /\ LET end == Min(ioff + icfg.batchSize, icfg.rows)
       IN  IF end < ioff
           THEN ipc' = "panic" /\ UNCHANGED iend
           ELSE ipc' = "enter" /\ iend' = end
    /\ UNCHANGED <<icfg, ioff, itotal, itx, idb, ilast, iret>>
    /\ UNCHANGED notIns

\* Insert: the loop is over, `return total, nil`
InsertReturns ==
    /\ ipc = "loop"
    /\ ioff >= icfg.rows
    /\ iret' = [n |-> itotal, err |-> Nil]
    /\ ipc' = "returned"
    /\ UNCHANGED <<icfg, ioff, iend, itotal, itx, idb, ilast>>
    /\ UNCHANGED notIns

\* `if len(rows) == 0 { return 0, nil }`
BatchEmpty ==
    /\ ipc = "enter"
    /\ iend = ioff
    /\ BatchReturns(0, Nil)
    /\ UNCHANGED <<icfg, iend, itx, idb>>
    /\ UNCHANGED notIns

\* db.Begin
BatchBegins ==
    /\ ipc = "enter"
    /\ iend > ioff
    /\ ipc' = "exec"
    /\ itx' = {}
    /\ UNCHANGED <<icfg, ioff, iend, itotal, idb, ilast, iret>>
    /\ UNCHANGED notIns

\* db.Begin fails
BatchBeginFails ==
    /\ ipc = "enter"
    /\ iend > ioff
    /\ BatchReturns(0, "begin")
    /\ UNCHANGED <<icfg, iend, itx, idb>>
    /\ UNCHANGED notIns

\* tx.Prepare fails (InsertBatch 77-80, SQLiteInserter 468-471)
BatchPrepareFails ==
    /\ ipc = "exec"
    /\ itx = {}
    /\ icfg.fn # "PostgresInserter.Insert"
    /\ BatchReturns(0, "prepare")
    /\ idb' = Rollback(idb, itx)
    /\ itx' = {}
    /\ UNCHANGED <<icfg, iend>>
    /\ UNCHANGED notIns

\* SQLiteInserter 475-484: stmt.Exec of the next row of the chunk
BatchExecRow ==
    /\ ipc = "exec"
    /\ icfg.fn = "SQLiteInserter.Insert"
    /\ itx' = itx \cup {ioff + Cardinality(itx) + 1}
    /\ ipc' = IF Cardinality(itx) + 1 = iend - ioff THEN "commit" ELSE "exec"
    /\ UNCHANGED <<icfg, ioff, iend, itotal, idb, ilast, iret>>
    /\ UNCHANGED notIns

\* SQLiteInserter 480-482: stmt.Exec of a row fails, `return count, err`
BatchExecRowFails ==
    /\ ipc = "exec"
    /\ icfg.fn = "SQLiteInserter.Insert"
    /\ BatchReturns(ErrCount(Cardinality(itx)), "exec")
    /\ idb' = Rollback(idb, itx)
    /\ itx' = {}
    /\ UNCHANGED <<icfg, iend>>
    /\ UNCHANGED notIns

\* InsertBatch 82-83, PostgresInserter 119: one multi-row INSERT
BatchExecAll ==
    /\ ipc = "exec"
    /\ icfg.fn # "SQLiteInserter.Insert"
    /\ itx' = (ioff + 1)..iend
    /\ ipc' = "commit"
    /\ UNCHANGED <<icfg, ioff, iend, itotal, idb, ilast, iret>>
    /\ UNCHANGED notIns

\* the multi-row INSERT fails: no row of it is executed
BatchExecAllFails ==
    /\ ipc = "exec"
    /\ icfg.fn # "SQLiteInserter.Insert"
    /\ BatchReturns(0, "exec")
    /\ idb' = Rollback(idb, itx)
    /\ itx' = {}
    /\ UNCHANGED <<icfg, iend>>
    /\ UNCHANGED notIns

\* tx.Commit: the rows of the transaction are in the table
BatchCommit ==
    /\ ipc = "commit"
    /\ idb' = idb \cup itx
    /\ itx' = {}
    /\ BatchReturns(iend - ioff, Nil)
    /\ UNCHANGED <<icfg, iend>>
    /\ UNCHANGED notIns

\* tx.Commit fails: nothing of the transaction is kept
BatchCommitFails ==
    /\ ipc = "commit"
    /\ BatchReturns(ErrCount(Cardinality(itx)), "commit")
    /\ idb' = Rollback(idb, itx)
    /\ itx' = {}
    /\ UNCHANGED <<icfg, iend>>
    /\ UNCHANGED notIns

NextInsert ==
    \/ InsertChunk
    \/ InsertReturns
    \/ BatchEmpty
    \/ BatchBegins
    \/ BatchBeginFails
    \/ BatchPrepareFails
    \/ BatchExecRow
    \/ BatchExecRowFails
    \/ BatchExecAll
    \/ BatchExecAllFails
    \/ BatchCommit
    \/ BatchCommitFails

SpecInsert == InitInsert /\ [][NextInsert]_vars

-----------------------------------------------------------------------------
(* internal/schema: the text of a schema file, normalizeSQL *)

\* bytes of a schema text
MaxText == 5

\* bufio.MaxScanTokenSize: the Scanner of normalizeSQL takes lines shorter
\* than this.  It is 64 * 1024 bytes in package bufio; the model counts it
\* in units of 1024 bytes, so that a line of the model can reach it.
MaxScanTokenSize == 64

\* the bytes of the short texts given to normalizeSQL
SQLBytes == {"a", "-", " ", "\n", "\r"}

\* a line of n bytes
LineOf(n) == [i \in 1..n |-> "a"]

\* texts of two lines, each shorter than the Scanner's limit
LongTexts ==
    {LineOf(n) \o <<"\n">> \o LineOf(m) :
        n, m \in {MaxScanTokenSize - 1, MaxScanTokenSize \div 2}}

SQLTexts == UNION {[1..n -> SQLBytes] : n \in 0..MaxText} \cup LongTexts

\* strings.HasPrefix
HasPrefix(s, prefix) == MatchAt(s, 0, prefix)

\* dropCR of bufio.ScanLines: one trailing \r goes
DropCR(line) ==
    IF line # <<>> /\ line[Len(line)] = "\r" THEN SubSeq(line, 1, Len(line) - 1) ELSE line

\* `for sc.Scan() { sc.Text() }` with bufio.ScanLines from index i on: the
\* lines of s up to the first line of MaxScanTokenSize bytes or more, where
\* Scan returns false (bufio.ErrTooLong; normalizeSQL does not look at
\* sc.Err())
RECURSIVE ScanLinesFrom(_, _)
ScanLinesFrom(s, i) ==
    IF i >= Len(s) THEN <<>>
    ELSE LET nl == Index(SliceFrom(s, i), <<"\n">>)
         IN  IF nl = -1
             THEN IF Len(s) - i >= MaxScanTokenSize
                  THEN <<>>
                  ELSE <<DropCR(SliceFrom(s, i))>>
             ELSE IF nl >= MaxScanTokenSize
                  THEN <<>>
                  ELSE <<DropCR(Slice(s, i, i + nl))>> \o ScanLinesFrom(s, i + nl + 1)

\* lines 45-52 over the scanned lines from the k-th on
RECURSIVE WriteLines(_, _)
WriteLines(lines, k) ==
    IF k > Len(lines) THEN <<>>
    ELSE LET line == TrimSpace(lines[k])
         IN  IF line = <<>> \/ HasPrefix(line, <<"-", "-">>)
             THEN WriteLines(lines, k + 1)
             ELSE <<" ">> \o line \o WriteLines(lines, k + 1)

\* normalizeSQL
normalizeSQL(s) == WriteLines(ScanLinesFrom(s, 0), 1)

InitNormalize ==
    /\ arg \in SQLTexts
    /\ res = <<>>
    /\ ppc = "normalizeSQL"
    /\ TopoIdle
    /\ JsonIdle
    /\ SeedIdle
    /\ InsIdle
    /\ TuiIdle

\* normalizeSQL on the text, then on what it returned
Normalize ==
    /\ ppc = "normalizeSQL"
    /\ Len(res) < 2
    /\ res' = Append(res, normalizeSQL(IF res = <<>> THEN arg ELSE res[Len(res)]))
    /\ UNCHANGED <<arg, ppc>>
    /\ UNCHANGED notPure

NextNormalize == Normalize

SpecNormalize == InitNormalize /\ [][NextNormalize]_vars

-----------------------------------------------------------------------------
(* internal/schema: normalizeType *)

LowerCase ==
    <<"a", "b", "c", "d", "e", "f", "g", "h", "i", "j", "k", "l", "m",
      "n", "o", "p", "q", "r", "s", "t", "u", "v", "w", "x", "y", "z">>

UpperCase ==
    <<"A", "B", "C", "D", "E", "F", "G", "H", "I", "J", "K", "L", "M",
      "N", "O", "P", "Q", "R", "S", "T", "U", "V", "W", "X", "Y", "Z">>

\* the place of c in the alphabet letters, or 0
LetterIn(letters, c) ==
    IF \E i \in 1..Len(letters) : letters[i] = c
    THEN CHOOSE i \in 1..Len(letters) : letters[i] = c
    ELSE 0

\* strings.ToLower
ToLower(s) ==
    [i \in 1..Len(s) |->
        IF LetterIn(UpperCase, s[i]) # 0 THEN LowerCase[LetterIn(UpperCase, s[i])] ELSE s[i]]

\* strings.ToUpper
ToUpper(s) ==
    [i \in 1..Len(s) |->
        IF LetterIn(LowerCase, s[i]) # 0 THEN UpperCase[LetterIn(LowerCase, s[i])] ELSE s[i]]

\* strings.Contains
Contains(s, sub) == Index(s, sub) # -1

\* the semantic types
SemanticTypes == {"integer", "text", "decimal", "timestamp", "boolean"}

\* the `case` of normalizeType that takes text
IsTextType(t) ==
    \/ HasPrefix(t, <<"v", "a", "r", "c", "h", "a", "r">>)
    \/ HasPrefix(t, <<"c", "h", "a", "r">>)
    \/ t = <<"t", "e", "x", "t">>
    \/ HasPrefix(t, <<"c", "h", "a", "r", "a", "c", "t", "e", "r">>)

\* the `case` of normalizeType that takes integer
IsIntegerType(t) ==
    \/ HasPrefix(t, <<"i", "n", "t">>)
    \/ t = <<"s", "e", "r", "i", "a", "l">>
    \/ HasPrefix(t, <<"b", "i", "g", "s", "e", "r", "i", "a", "l">>)
    \/ HasPrefix(t, <<"s", "m", "a", "l", "l", "i", "n", "t">>)

\* the `case` of normalizeType that takes decimal
IsDecimalType(t) ==
    \/ HasPrefix(t, <<"d", "e", "c", "i", "m", "a", "l">>)
    \/ HasPrefix(t, <<"n", "u", "m", "e", "r", "i", "c">>)
    \/ HasPrefix(t, <<"r", "e", "a", "l">>)
    \/ HasPrefix(t, <<"d", "o", "u", "b", "l", "e">>)
    \/ t = <<"f", "l", "o", "a", "t">>

\* the `case` of normalizeType that takes timestamp
IsTimestampType(t) ==
    \/ Contains(t, <<"t", "i", "m", "e", "s", "t", "a", "m", "p">>)
    \/ Contains(t, <<"d", "a", "t", "e">>)
    \/ t = <<"d", "a", "t", "e", "t", "i", "m", "e">>

\* the `case` of normalizeType that takes boolean
IsBooleanType(t) ==
    \/ t = <<"b", "o", "o", "l">>
    \/ HasPrefix(t, <<"b", "o", "o", "l", "e", "a", "n">>)

\* normalizeType: the first `case` that holds decides
normalizeType(typ) ==
    LET t == ToLower(TrimSpace(typ))
    IN  IF IsTextType(t) THEN "text"
        ELSE IF IsIntegerType(t) THEN "integer"
        ELSE IF IsDecimalType(t) THEN "decimal"
        ELSE IF IsTimestampType(t) THEN "timestamp"
        ELSE IF IsBooleanType(t) THEN "boolean"
        ELSE "text"

\* raw type tokens handed to normalizeType, in lower case
TypeTokens ==
    { <<"i", "n", "t">>,
      <<"i", "n", "t", "e", "g", "e", "r">>,
      <<"s", "m", "a", "l", "l", "i", "n", "t">>,
      <<"b", "i", "g", "i", "n", "t">>,
      <<"s", "e", "r", "i", "a", "l">>,
      <<"b", "i", "g", "s", "e", "r", "i", "a", "l">>,
      <<"v", "a", "r", "c", "h", "a", "r">>,
      <<"v", "a", "r", "c", "h", "a", "r", "(", "9", ")">>,
      <<"c", "h", "a", "r">>,
      <<"c", "h", "a", "r", "a", "c", "t", "e", "r">>,
      <<"t", "e", "x", "t">>,
      <<"d", "e", "c", "i", "m", "a", "l">>,
      <<"n", "u", "m", "e", "r", "i", "c">>,
      <<"n", "u", "m", "e", "r", "i", "c", "(", "9", ",", "2", ")">>,
      <<"r", "e", "a", "l">>,
      <<"d", "o", "u", "b", "l", "e">>,
      <<"f", "l", "o", "a", "t">>,
      <<"t", "i", "m", "e", "s", "t", "a", "m", "p">>,
      <<"d", "a", "t", "e">>,
      <<"d", "a", "t", "e", "t", "i", "m", "e">>,
      <<"b", "o", "o", "l">>,
      <<"b", "o", "o", "l", "e", "a", "n">>,
      <<"j", "s", "o", "n">>,
      <<"u", "u", "i", "d">>,
      <<"b", "l", "o", "b">>,
      <<"x">> }

\* a token with its first n bytes in upper case
UpperFirst(s, n) ==
    [i \in 1..Len(s) |-> IF i <= n THEN ToUpper(<<s[i]>>)[1] ELSE s[i]]

\* the tokens in the letter cases a schema writes them in
RawTypes == {UpperFirst(t, n) : t \in TypeTokens, n \in {0, 1, 3, 12}}

InitType ==
    /\ arg \in RawTypes
    /\ res = <<>>
    /\ ppc = "normalizeType"
    /\ TopoIdle
    /\ JsonIdle
    /\ SeedIdle
    /\ InsIdle
    /\ TuiIdle

\* normalizeType on the token
NormalizeType ==
    /\ ppc = "normalizeType"
    /\ res = <<>>
    /\ res' = <<normalizeType(arg)>>
    /\ UNCHANGED <<arg, ppc>>
    /\ UNCHANGED notPure

NextType == NormalizeType

SpecType == InitType /\ [][NextType]_vars

-----------------------------------------------------------------------------
(* internal/schema: the regular expressions of the parser.  A match is     *)
(* followed from its first byte on; every repetition of these expressions  *)
(* is followed by a byte outside its class, so the longest run is the one  *)
(* regexp takes.  A position is an index into the text, or -1 for no match *)

\* body(v): a value is named, and used under the name.  The value is worked
\* out once, before the body is
With(v, body(_)) == CHOOSE r \in {body(x) : x \in {v}} : TRUE

\* s[i], or "" past the end
ByteAt(s, i) == IF i >= 0 /\ i < Len(s) THEN s[i + 1] ELSE ""

\* \w
WordBytes ==
    {LowerCase[i] : i \in 1..Len(LowerCase)} \cup {UpperCase[i] : i \in 1..Len(UpperCase)}
        \cup {"0", "1", "2", "3", "4", "5", "6", "7", "8", "9", "_"}

IsWord(c) == c \in WordBytes

IsQuote(c) == c \in {"\"", "'"}

\* the index after the run of white space that starts at i
RECURSIVE SpanSpace(_, _)
SpanSpace(s, i) ==
    IF i < Len(s) /\ IsSpace(s[i + 1]) THEN SpanSpace(s, i + 1) ELSE i

\* the index after the run of word bytes that starts at i
RECURSIVE SpanWord(_, _)
SpanWord(s, i) ==
    IF i < Len(s) /\ IsWord(s[i + 1]) THEN SpanWord(s, i + 1) ELSE i

\* the index after the run of bytes other than c that starts at i
RECURSIVE SpanNot(_, _, _)
SpanNot(s, i, c) ==
    IF i < Len(s) /\ s[i + 1] # c THEN SpanNot(s, i + 1, c) ELSE i

\* \s*
Spaces0(s, i) == IF i < 0 THEN -1 ELSE SpanSpace(s, i)

\* \s+
Spaces1(s, i) == IF i < 0 \/ ~IsSpace(ByteAt(s, i)) THEN -1 ELSE SpanSpace(s, i)

\* \w+
Word1(s, i) == IF i < 0 \/ ~IsWord(ByteAt(s, i)) THEN -1 ELSE SpanWord(s, i)

\* ["']?
OptQuote(s, i) == IF i < 0 THEN -1 ELSE IF IsQuote(ByteAt(s, i)) THEN i + 1 ELSE i

\* a byte in upper case
UpperByte(c) == IF LetterIn(LowerCase, c) # 0 THEN UpperCase[LetterIn(LowerCase, c)] ELSE c

\* a literal under (?i): lit is in upper case
Lit(s, i, lit) ==
    IF /\ i >= 0
       /\ i + Len(lit) <= Len(s)
       /\ \A k \in 1..Len(lit) : UpperByte(s[i + k]) = lit[k]
    THEN i + Len(lit)
    ELSE -1

\* ["']?(\w+)["']? from i on: the bounds of the name and the index after
QuotedWord(s, i) ==
    With(OptQuote(s, i), LAMBDA lo :
    With(Word1(s, lo), LAMBDA hi :
        [lo |-> lo, hi |-> hi, end |-> OptQuote(s, hi)]))

\* no match of an expression
NoMatch == [end |-> -1]

\* the match of an expression as FindStringSubmatch looks for it: ms[i] is
\* the match from index i on, and the one of the least index is taken
FirstMatch(ms) ==
    IF \E i \in DOMAIN ms : ms[i].end # -1
    THEN ms[CHOOSE i \in DOMAIN ms :
                ms[i].end # -1 /\ \A j \in DOMAIN ms : j < i => ms[j].end = -1]
    ELSE NoMatch

\* [^)]+
NotParen1(s, i) ==
    IF i < 0 \/ ByteAt(s, i) \in {")", ""} THEN -1 ELSE SpanNot(s, i, ")")

\* checkIn of parseColumnDef from i on: CHECK\s*\(\s*\w+\s+IN\s*\(([^)]+)\)
checkInAt(s, i) ==
    With(Lit(s, Spaces0(s, Lit(s, Spaces1(s, Word1(s, Spaces0(s,
             Lit(s, Spaces0(s, Lit(s, i, <<"C", "H", "E", "C", "K">>)), <<"(">>)))),
             <<"I", "N">>)), <<"(">>),
         LAMBDA list :
    With(NotParen1(s, list), LAMBDA stop :
        [end |-> Lit(s, stop, <<")">>), list |-> Slice(s, list, stop)]))

\* `\s*\(\s*["']?(\w+)["']?\s*\)` from i on: a name in parentheses
ParenWord(s, i) ==
    With(QuotedWord(s, Spaces0(s, Lit(s, Spaces0(s, i), <<"(">>))), LAMBDA w :
        [lo |-> w.lo, hi |-> w.hi, end |-> Lit(s, Spaces0(s, w.end), <<")">>)])

\* refRe of parseColumnDef from i on:
\* REFERENCES\s+["']?(\w+)["']?\s*\(\s*["']?(\w+)["']?\s*\)
refReAt(s, i) ==
    With(QuotedWord(s, Spaces1(s, Lit(s, i,
             <<"R", "E", "F", "E", "R", "E", "N", "C", "E", "S">>))),
         LAMBDA tbl :
    With(ParenWord(s, tbl.end), LAMBDA col :
        [end |-> col.end,
         RefTable |-> Slice(s, tbl.lo, tbl.hi),
         RefColumn |-> Slice(s, col.lo, col.hi)]))

\* colDefRe at the start of s: ^["']?(\w+)["']?\s+(\w+)(\s*\([^)]*\))?
colDefReMatch(s) ==
    With(QuotedWord(s, 0), LAMBDA name :
    With(Spaces1(s, name.end), LAMBDA typ :
    With(Word1(s, typ), LAMBDA tend :
    With(Lit(s, Spaces0(s, tend), <<"(">>), LAMBDA open :
    With(Lit(s, IF open < 0 THEN -1 ELSE SpanNot(s, open, ")"), <<")">>), LAMBDA size :
        [end |-> IF size # -1 THEN size ELSE tend,
         name |-> Slice(s, name.lo, name.hi),
         type |-> Slice(s, typ, tend),
         size |-> IF size # -1 THEN Slice(s, tend, size) ELSE <<>>])))))

\* the matches of '([^']*)'|"([^"]*)" from i on, left to right, with the
\* empty ones left out as parseQuotedList leaves them out
RECURSIVE QuotedListFrom(_, _)
QuotedListFrom(s, i) ==
    IF i >= Len(s) THEN <<>>
    ELSE IF IsQuote(s[i + 1]) /\ SpanNot(s, i + 1, s[i + 1]) < Len(s)
         THEN LET close == SpanNot(s, i + 1, s[i + 1])
              IN  (IF close > i + 1 THEN <<Slice(s, i + 1, close)>> ELSE <<>>)
                      \o QuotedListFrom(s, close + 1)
         ELSE QuotedListFrom(s, i + 1)

\* parseQuotedList
parseQuotedList(s) == QuotedListFrom(s, 0)

\* a nil *ForeignKey
NilForeignKey == [RefTable |-> <<>>, RefColumn |-> <<>>]

\* a nil *Column
NilColumn ==
    [Name |-> <<>>, Type |-> "", NotNull |-> FALSE, Unique |-> FALSE,
     PrimaryKey |-> FALSE, CheckIn |-> <<>>, ForeignKey |-> NilForeignKey]

\* parseColumnDef
parseColumnDef(s) ==
    With(ToUpper(s), LAMBDA upper :
    With(FirstMatch([i \in 0..Len(s) |-> checkInAt(s, i)]), LAMBDA chk :
    With(FirstMatch([i \in 0..Len(s) |-> refReAt(s, i)]), LAMBDA ref :
    With(colDefReMatch(s), LAMBDA idx :
        IF idx.end = -1 THEN NilColumn
        ELSE [Name       |-> idx.name,
              Type       |-> normalizeType(TrimSpace(idx.type) \o TrimSpace(idx.size)),
              NotNull    |-> Contains(upper, <<"N", "O", "T", " ", "N", "U", "L", "L">>),
              Unique     |-> Contains(upper, <<"U", "N", "I", "Q", "U", "E">>),
              PrimaryKey |-> Contains(upper, <<"P", "R", "I", "M", "A", "R", "Y", " ", "K", "E", "Y">>),
              CheckIn    |-> IF chk.end # -1 THEN parseQuotedList(chk.list) ELSE <<>>,
              ForeignKey |-> IF ref.end # -1
                             THEN [RefTable |-> ref.RefTable, RefColumn |-> ref.RefColumn]
                             ELSE NilForeignKey]))))

\* the sub-tokens of a column definition, as a schema writes them
SubTokens ==
    [NotNull    |-> <<" ", "N", "O", "T", " ", "N", "U", "L", "L">>,
     Unique     |-> <<" ", "u", "n", "i", "q", "u", "e">>,
     PrimaryKey |-> <<" ", "P", "R", "I", "M", "A", "R", "Y", " ", "K", "E", "Y">>,
     CheckIn    |-> <<" ", "C", "H", "E", "C", "K", " ", "(", "a", " ", "I", "N", " ",
                      "(", "'", "x", "'", ",", " ", "'", "y", "'", ")", ")">>,
     ForeignKey |-> <<" ", "R", "E", "F", "E", "R", "E", "N", "C", "E", "S", " ",
                      "t", "(", "c", ")">>]

\* column names of the column definitions
ColumnNames ==
    { <<"a">>,
      <<"i", "d">>,
      <<"u", "n", "i", "q", "u", "e", "_", "c", "o", "d", "e">> }

\* the declared types of the column definitions
ColumnTypes ==
    { <<"I", "N", "T">>,
      <<"t", "e", "x", "t">>,
      <<"V", "A", "R", "C", "H", "A", "R", "(", "9", ")">> }

\* the column definition `name type` followed by the sub-tokens of toks
ColumnDef(name, typ, toks) ==
    name \o <<" ">> \o typ
        \o (IF "NotNull" \in toks THEN SubTokens.NotNull ELSE <<>>)
        \o (IF "Unique" \in toks THEN SubTokens.Unique ELSE <<>>)
        \o (IF "PrimaryKey" \in toks THEN SubTokens.PrimaryKey ELSE <<>>)
        \o (IF "CheckIn" \in toks THEN SubTokens.CheckIn ELSE <<>>)
        \o (IF "ForeignKey" \in toks THEN SubTokens.ForeignKey ELSE <<>>)

ColumnDefs ==
    {ColumnDef(name, typ, toks) :
        name \in ColumnNames, typ \in ColumnTypes, toks \in SUBSET DOMAIN SubTokens}

InitColumn ==
    /\ arg \in ColumnDefs
    /\ res = <<>>
    /\ ppc = "parseColumnDef"
    /\ TopoIdle
    /\ JsonIdle
    /\ SeedIdle
    /\ InsIdle
    /\ TuiIdle

\* parseColumnDef on the clause
ParseColumnDef ==
    /\ ppc = "parseColumnDef"
    /\ res = <<>>
    /\ res' = <<parseColumnDef(arg)>>
    /\ UNCHANGED <<arg, ppc>>
    /\ UNCHANGED notPure

NextColumn == ParseColumnDef

SpecColumn == InitColumn /\ [][NextColumn]_vars

-----------------------------------------------------------------------------
(* internal/schema: parseTableBody and parseTables *)

\* the least number of a set of numbers that is not empty
Least(S) == CHOOSE x \in S : \A y \in S : x <= y

\* `depth` of the loops of splitTopLevel and extractParenBlock once the
\* bytes from..upto-1 are handled: one up for each "(", one down for each ")"
ParenDepth(s, from, upto) ==
    Cardinality({j \in (from + 1)..upto : s[j] = "("})
        - Cardinality({j \in (from + 1)..upto : s[j] = ")"})

\* the loop of splitTopLevel from the part that starts at index i on: the
\* part runs up to the next separator met at depth 0, and the bytes after
\* the last such separator are a part when there are any
RECURSIVE SplitFrom(_, _, _, _)
SplitFrom(s, sep, i, parts) ==
    With({j \in i..(Len(s) - 1) : s[j + 1] = sep /\ ParenDepth(s, 0, j) = 0},
         LAMBDA cuts :
        IF cuts = {}
        THEN IF i < Len(s) THEN Append(parts, SliceFrom(s, i)) ELSE parts
        ELSE SplitFrom(s, sep, Least(cuts) + 1,
                       Append(parts, Slice(s, i, Least(cuts)))))

\* splitTopLevel
splitTopLevel(s, sep) == SplitFrom(s, sep, 0, <<>>)

\* strings.Split(s, sep) for a separator of one byte
RECURSIVE Split(_, _)
Split(s, sep) ==
    LET i == Index(s, <<sep>>)
    IN  IF i = -1 THEN <<s>>
        ELSE <<Slice(s, 0, i)>> \o Split(SliceFrom(s, i + 1), sep)

\* the expression of applyPrimaryKey from i on: PRIMARY\s+KEY\s*\(\s*([^)]+)\)
\* When only white space stands before the closing parenthesis, \s* gives
\* its last byte to ([^)]+).
pkReAt(s, i) ==
    With(Lit(s, Spaces0(s, Lit(s, Spaces1(s, Lit(s, i,
             <<"P", "R", "I", "M", "A", "R", "Y">>)), <<"K", "E", "Y">>)), <<"(">>),
         LAMBDA open :
    With(Spaces0(s, open), LAMBDA from :
    With(IF NotParen1(s, from) = -1 /\ from > open /\ open # -1 THEN from - 1 ELSE from,
         LAMBDA lo :
    With(NotParen1(s, lo), LAMBDA stop :
        [end |-> Lit(s, stop, <<")">>), list |-> Slice(s, lo, stop)]))))

\* fkRe of applyForeignKey and applyTableConstraint from i on:
\* FOREIGN\s+KEY\s*\(\s*["']?(\w+)["']?\s*\)\s+REFERENCES\s+...
fkReAt(s, i) ==
    With(ParenWord(s, Lit(s, Spaces1(s, Lit(s, i,
             <<"F", "O", "R", "E", "I", "G", "N">>)), <<"K", "E", "Y">>)),
         LAMBDA col :
    With(refReAt(s, Spaces1(s, col.end)), LAMBDA ref :
        [end |-> ref.end,
         Column |-> Slice(s, col.lo, col.hi),
         RefTable |-> ref.RefTable,
         RefColumn |-> ref.RefColumn]))

\* the index of the first column of cols with the name, or 0
FirstNamed(cols, name) ==
    IF \E i \in 1..Len(cols) : cols[i].Name = name
    THEN CHOOSE i \in 1..Len(cols) :
            cols[i].Name = name /\ \A j \in 1..(i - 1) : cols[j].Name # name
    ELSE 0

\* the loop of applyPrimaryKey over the names of the list from the k-th on
RECURSIVE MarkPrimaryKeys(_, _, _)
MarkPrimaryKeys(cols, names, k) ==
    IF k > Len(names) THEN cols
    ELSE LET i == FirstNamed(cols, TrimSpace(names[k]))
         IN  MarkPrimaryKeys(IF i = 0 THEN cols ELSE [cols EXCEPT ![i].PrimaryKey = TRUE],
                             names, k + 1)

\* applyPrimaryKey: the columns of the table after it
applyPrimaryKey(cols, s) ==
    With(FirstMatch([i \in 0..Len(s) |-> pkReAt(s, i)]), LAMBDA m :
        IF m.end = -1 THEN cols
        ELSE MarkPrimaryKeys(cols, Split(m.list, ","), 1))

\* applyForeignKey: the columns of the table after it
applyForeignKey(cols, s) ==
    With(FirstMatch([i \in 0..Len(s) |-> fkReAt(s, i)]), LAMBDA m :
        IF m.end = -1 THEN cols
        ELSE With(FirstNamed(cols, m.Column), LAMBDA i :
                 IF i = 0 THEN cols
                 ELSE [cols EXCEPT ![i].ForeignKey =
                           [RefTable |-> m.RefTable, RefColumn |-> m.RefColumn]]))

\* applyTableConstraint: the same expression and loop as applyForeignKey
applyTableConstraint(cols, s) == applyForeignKey(cols, s)

\* the loop body with a table that loses its columns at a clause of no
\* recognized shape
TableClauseAborts(cols, part) ==
    IF TrimSpace(part) # <<>> /\ parseColumnDef(TrimSpace(part)) = NilColumn
    THEN <<>>
    ELSE IF TrimSpace(part) = <<>> THEN cols
    ELSE Append(cols, parseColumnDef(TrimSpace(part)))

\* the body of the loop of parseTableBody for one part: the columns of the
\* table after it
TableClause(cols, part) ==
    With(TrimSpace(part), LAMBDA p :
    With(ToUpper(p), LAMBDA upper :
    With(parseColumnDef(p), LAMBDA col :
        IF p = <<>> THEN cols
        ELSE IF HasPrefix(upper, <<"C", "O", "N", "S", "T", "R", "A", "I", "N", "T", " ">>)
             THEN applyTableConstraint(cols, p)
        ELSE IF HasPrefix(upper, <<"P", "R", "I", "M", "A", "R", "Y", " ", "K", "E", "Y">>)
             THEN applyPrimaryKey(cols, p)
        ELSE IF HasPrefix(upper, <<"F", "O", "R", "E", "I", "G", "N", " ", "K", "E", "Y">>)
             THEN applyForeignKey(cols, p)
        ELSE IF col # NilColumn THEN Append(cols, col) ELSE cols)))

RECURSIVE TableClauses(_, _, _)
TableClauses(cols, parts, k) ==
    IF k > Len(parts) THEN cols
    ELSE With(TableClause(cols, parts[k]), LAMBDA next :
             TableClauses(next, parts, k + 1))

\* parseTableBody
parseTableBody(tableName, body) ==
    [Name |-> tableName, Columns |-> TableClauses(<<>>, splitTopLevel(body, ","), 1)]

\* the loop of extractParenBlock from index start on: the index of the
\* first ")" that brings the depth back to 0, or -1 when the text ends
\* before that
ClosingParen(s, start) ==
    With({i \in start..(Len(s) - 1) : s[i + 1] = ")" /\ ParenDepth(s, start, i + 1) = 0},
         LAMBDA closes : IF closes = {} THEN -1 ELSE Least(closes))

\* extractParenBlock that fails, with no body, when the depth does not come
\* back to 0
extractParenBlockOrFail(s) ==
    With(Index(s, <<"(">>), LAMBDA start :
        IF start = -1 THEN <<>>
        ELSE With(ClosingParen(s, start), LAMBDA close :
                 IF close # -1 THEN Slice(s, start + 1, close)
                 ELSE <<>>))

\* extractParenBlock
extractParenBlock(s) ==
    With(Index(s, <<"(">>), LAMBDA start :
        IF start = -1 THEN <<>>
        ELSE With(ClosingParen(s, start), LAMBDA close :
                 IF close # -1 THEN Slice(s, start + 1, close)
                 ELSE SliceFrom(s, start + 1)))

\* `["']?(\w+)["']?\s*\(` from i on
TableNameAt(s, i) ==
    With(QuotedWord(s, i), LAMBDA w :
        [lo |-> w.lo, hi |-> w.hi, end |-> Lit(s, Spaces0(s, w.end), <<"(">>)])

\* the expression of parseTables from i on:
\* CREATE\s+TABLE\s+(IF\s+NOT\s+EXISTS\s+)?["']?(\w+)["']?\s*\(
\* The optional group is tried first, and left out when the rest does not
\* match after it.
createReAt(s, i) ==
    With(Spaces1(s, Lit(s, Spaces1(s, Lit(s, i,
             <<"C", "R", "E", "A", "T", "E">>)), <<"T", "A", "B", "L", "E">>)),
         LAMBDA tbl :
    With(TableNameAt(s, Spaces1(s, Lit(s, Spaces1(s, Lit(s, Spaces1(s, Lit(s, tbl,
             <<"I", "F">>)), <<"N", "O", "T">>)), <<"E", "X", "I", "S", "T", "S">>))),
         LAMBDA ine :
        IF ine.end # -1 THEN ine ELSE TableNameAt(s, tbl)))

\* FindAllStringSubmatchIndex from index i on: the matches from left to
\* right, each looked for after the end of the one before
RECURSIVE CreateMatchesFrom(_, _)
CreateMatchesFrom(s, i) ==
    With(FirstMatch([j \in i..Len(s) |->
             [start |-> j, lo |-> createReAt(s, j).lo, hi |-> createReAt(s, j).hi,
              end |-> createReAt(s, j).end]]),
         LAMBDA m :
        IF m.end = -1 THEN <<>>
        ELSE <<[start |-> m.start, lo |-> m.lo, hi |-> m.hi]>>
                 \o CreateMatchesFrom(s, m.end))

\* the loop of parseTables over the matches from the i-th on: the body of
\* a table is looked for between its match and the next one
RECURSIVE TablesFrom(_, _, _)
TablesFrom(content, matches, i) ==
    IF i > Len(matches) THEN <<>>
    ELSE <<parseTableBody(
               Slice(content, matches[i].lo, matches[i].hi),
               extractParenBlock(
                   Slice(content, matches[i].start,
                         IF i + 1 <= Len(matches) THEN matches[i + 1].start
                         ELSE Len(content))))>>
             \o TablesFrom(content, matches, i + 1)

\* parseTables
parseTables(text) ==
    With(normalizeSQL(text), LAMBDA content :
    With(CreateMatchesFrom(content, 0), LAMBDA matches :
        TablesFrom(content, matches, 1)))

\* a name of the schema texts as a value the orderer compares names by: a
\* name of one byte is that byte
GoString(bytes) == CASE Len(bytes) = 1 -> bytes[1]

\* the tables as topologicalSort reads them: names, and for each column the
\* table its foreign key names
SortView(tbls) ==
    [i \in 1..Len(tbls) |->
        [Name    |-> GoString(tbls[i].Name),
         Columns |-> [k \in 1..Len(tbls[i].Columns) |->
                        Column(IF tbls[i].Columns[k].ForeignKey = NilForeignKey
                               THEN Nil
                               ELSE GoString(tbls[i].Columns[k].ForeignKey.RefTable))]]]

\* ParseFile on a schema text: the parsed tables in the order of
\* topologicalSort, and the error
ParseFileText(text) ==
    With(parseTables(text), LAMBDA tbls :
    With(topologicalSort(SortView(tbls)), LAMBDA sorted :
        [tables |-> [k \in 1..Len(sorted) |-> tbls[sorted[k]]], err |-> Nil]))

\* clauses per table body
MaxClauses == 3

\* well-formed column definitions
WellFormedClauses ==
    { ColumnDef(<<"a">>, <<"I", "N", "T">>, {}),
      ColumnDef(<<"b">>, <<"N", "U", "M", "E", "R", "I", "C", "(", "9", ",", "2", ")">>, {"NotNull"}),
      ColumnDef(<<"i", "d">>, <<"S", "E", "R", "I", "A", "L">>, {"PrimaryKey"}) }

\* clauses of no recognized shape: UNIQUE (a, b), CHECK (a > 0), a lone
\* word, and CONSTRAINT k CHECK (a > 0)
UnrecognizedClauses ==
    { <<"U", "N", "I", "Q", "U", "E", " ", "(", "a", ",", " ", "b", ")">>,
      <<"C", "H", "E", "C", "K", " ", "(", "a", " ", ">", " ", "0", ")">>,
      <<"x">>,
      <<"C", "O", "N", "S", "T", "R", "A", "I", "N", "T", " ", "k", " ",
        "C", "H", "E", "C", "K", " ", "(", "a", " ", ">", " ", "0", ")">> }

\* the clauses of one table body
ClauseLists ==
    UNION {[1..n -> WellFormedClauses \cup UnrecognizedClauses] : n \in 1..MaxClauses}

\* the clauses, one per line, with a comma between two of them
RECURSIVE JoinClauses(_, _)
JoinClauses(clauses, k) ==
    IF k > Len(clauses) THEN <<>>
    ELSE <<"\n", " ">> \o clauses[k]
             \o (IF k < Len(clauses) THEN <<",">> ELSE <<>>)
             \o JoinClauses(clauses, k + 1)

\* the schema text `CREATE TABLE t ( clauses );`
SchemaText(clauses) ==
    <<"C", "R", "E", "A", "T", "E", " ", "T", "A", "B", "L", "E", " ", "t", " ", "(">>
        \o JoinClauses(clauses, 1) \o <<"\n", ")", ";", "\n">>

InitBody ==
    /\ arg \in ClauseLists
    /\ res = <<>>
    /\ ppc = "ParseFile"
    /\ TopoIdle
    /\ JsonIdle
    /\ SeedIdle
    /\ InsIdle
    /\ TuiIdle

\* ParseFile on the schema text of the clauses
ParseText ==
    /\ ppc = "ParseFile"
    /\ res = <<>>
    /\ res' = <<ParseFileText(SchemaText(arg))>>
    /\ UNCHANGED <<arg, ppc>>
    /\ UNCHANGED notPure

NextBody == ParseText

SpecBody == InitBody /\ [][NextBody]_vars

-----------------------------------------------------------------------------
(* internal/schema: declarations whose parentheses do not close *)

\* column clauses of a declaration that breaks off
MaxBrokenClauses == 2

\* how the declaration of t breaks off: its closing parenthesis is missing,
\* or its last clause `c NUMERIC(9` opens a parenthesis that is never closed
BrokenShapes == {"NoClose", "InnerOpen"}

\* the declarations of t that break off, each alone or followed by the
\* declaration of a table u with one column
BrokenSchemas ==
    [first  : UNION {[1..n -> WellFormedClauses] : n \in 1..MaxBrokenClauses},
     shape  : BrokenShapes,
     second : {<<>>} \cup {<<c>> : c \in WellFormedClauses}]

CreateTable(name) ==
    <<"C", "R", "E", "A", "T", "E", " ", "T", "A", "B", "L", "E", " ", name, " ", "(">>

\* the declaration of u, well formed
SecondText(b) ==
    IF b.second = <<>> THEN <<>>
    ELSE CreateTable("u") \o JoinClauses(b.second, 1) \o <<"\n", ")", ";", "\n">>

\* the schema text of a declaration that breaks off
BrokenText(b) ==
    CreateTable("t") \o JoinClauses(b.first, 1)
        \o (IF b.shape = "InnerOpen"
            THEN <<",", "\n", " ", "c", " ", "N", "U", "M", "E", "R", "I", "C", "(", "9", "\n", ")">>
            ELSE <<>>)
        \o <<";", "\n">> \o SecondText(b)

\* `body := content[start:end]` of parseTables for the first declaration of
\* a text: from its match to the next match, or to the end of the text
FirstSpan(text) ==
    With(normalizeSQL(text), LAMBDA content :
    With(CreateMatchesFrom(content, 0), LAMBDA matches :
        Slice(content, matches[1].start,
              IF Len(matches) > 1 THEN matches[2].start ELSE Len(content))))

InitBroken ==
    /\ arg \in BrokenSchemas
    /\ res = <<>>
    /\ ppc = "extractParenBlock"
    /\ TopoIdle
    /\ JsonIdle
    /\ SeedIdle
    /\ InsIdle
    /\ TuiIdle

\* extractParenBlock on the span of the first declaration
ExtractBlock ==
    /\ ppc = "extractParenBlock"
    /\ res' = <<extractParenBlock(FirstSpan(BrokenText(arg)))>>
    /\ ppc' = "ParseFile"
    /\ UNCHANGED arg
    /\ UNCHANGED notPure

\* ParseFile on the schema text
ParseBroken ==
    /\ ppc = "ParseFile"
    /\ Len(res) = 1
    /\ res' = Append(res, ParseFileText(BrokenText(arg)))
    /\ UNCHANGED <<arg, ppc>>
    /\ UNCHANGED notPure

NextBroken == ExtractBlock \/ ParseBroken

SpecBroken == InitBroken /\ [][NextBroken]_vars

-----------------------------------------------------------------------------
(* internal/schema: table-level clauses among the column clauses of a body *)

\* column clauses of a body with a table-level clause
MaxConstraintCols == 2

\* the column clauses: a INT, b TEXT NOT NULL, id SERIAL PRIMARY KEY
ConstraintColumns ==
    { ColumnDef(<<"a">>, <<"I", "N", "T">>, {}),
      ColumnDef(<<"b">>, <<"T", "E", "X", "T">>, {"NotNull"}),
      ColumnDef(<<"i", "d">>, <<"S", "E", "R", "I", "A", "L">>, {"PrimaryKey"}) }

\* PRIMARY KEY (names): the names as the clause lists them
PrimaryKeyClause(names) ==
    <<"P", "R", "I", "M", "A", "R", "Y", " ", "K", "E", "Y", " ", "(">>
        \o Join(names, <<",", " ">>) \o <<")">>

\* FOREIGN KEY (name) REFERENCES u(id)
ForeignKeyClause(name) ==
    <<"F", "O", "R", "E", "I", "G", "N", " ", "K", "E", "Y", " ", "(">> \o name
        \o <<")", " ", "R", "E", "F", "E", "R", "E", "N", "C", "E", "S", " ",
             "u", "(", "i", "d", ")">>

\* the lists of names of the PRIMARY KEY clauses; no column is named z
PrimaryKeyLists ==
    { << <<"a">> >>, << <<"a">>, <<"b">> >>, << <<"z">> >>, << <<"a">>, <<"z">> >> }

PrimaryKeyClauses == {PrimaryKeyClause(names) : names \in PrimaryKeyLists}

ForeignKeyClauses == {ForeignKeyClause(<<"a">>), ForeignKeyClause(<<"z">>)}

\* CONSTRAINT k in front of a clause
Constrained(clause) ==
    <<"C", "O", "N", "S", "T", "R", "A", "I", "N", "T", " ", "k", " ">> \o clause

\* bodies: column clauses of distinct names, and a table-level clause that
\* stands after the first `at` of them
ConstraintBodies ==
    {b \in [cols   : UNION {[1..n -> ConstraintColumns] : n \in 1..MaxConstraintCols},
            clause : PrimaryKeyClauses \cup ForeignKeyClauses,
            at     : 0..MaxConstraintCols] :
        /\ b.at <= Len(b.cols)
        /\ \A i, j \in 1..Len(b.cols) : b.cols[i] = b.cols[j] => i = j}

\* the clauses of a body, the table-level clause written as `clause`
BodyClauses(b, clause) ==
    SubSeq(b.cols, 1, b.at) \o <<clause>> \o SubSeq(b.cols, b.at + 1, Len(b.cols))

InitConstraint ==
    /\ arg \in ConstraintBodies
    /\ res = <<>>
    /\ ppc = "ParseFile"
    /\ TopoIdle
    /\ JsonIdle
    /\ SeedIdle
    /\ InsIdle
    /\ TuiIdle

\* ParseFile on the schema text with the clause as it is
ParsePlain ==
    /\ ppc = "ParseFile"
    /\ res = <<>>
    /\ res' = <<ParseFileText(SchemaText(BodyClauses(arg, arg.clause)))>>
    /\ UNCHANGED <<arg, ppc>>
    /\ UNCHANGED notPure

\* ParseFile on the schema text with CONSTRAINT k in front of the clause
ParseConstrained ==
    /\ ppc = "ParseFile"
    /\ Len(res) = 1
    /\ res' = Append(res, ParseFileText(SchemaText(BodyClauses(arg, Constrained(arg.clause)))))
    /\ UNCHANGED <<arg, ppc>>
    /\ UNCHANGED notPure

NextConstraint == ParsePlain \/ ParseConstrained

SpecConstraint == InitConstraint /\ [][NextConstraint]_vars

-----------------------------------------------------------------------------
(* internal/schema: Table.NonAutoColumns over the tables of a schema *)

\* the name of the k-th column of a table
ColumnNameAt(k) == <<"id", "a", "b", "c", "d">>[Min(k, 5)]

\* tables of up to MaxCols columns, each of semantic type integer or text
\* and a primary key or not
ColumnSets ==
    UNION {{[Name    |-> "t",
             Columns |-> [k \in 1..n |-> FullColumn(ColumnNameAt(k), typ[k], pk[k], Nil)]] :
                typ \in [1..n -> {"integer", "text"}], pk \in [1..n -> BOOLEAN]} :
              n \in 0..MaxCols}

InitNonAuto ==
    /\ arg \in ColumnSets
    /\ res = <<>>
    /\ ppc = "NonAutoColumns"
    /\ TopoIdle
    /\ JsonIdle
    /\ SeedIdle
    /\ InsIdle
    /\ TuiIdle

\* t.NonAutoColumns()
CallNonAutoColumns ==
    /\ ppc = "NonAutoColumns"
    /\ res = <<>>
    /\ res' = <<NonAutoColumns(arg)>>
    /\ UNCHANGED <<arg, ppc>>
    /\ UNCHANGED notPure

NextNonAuto == CallNonAutoColumns

SpecNonAuto == InitNonAuto /\ [][NextNonAuto]_vars

-----------------------------------------------------------------------------
(* internal/tui: the Update loop of the terminal front-end.  A key reaches  *)
(* Update when it is pressed; a command Update returns runs on a goroutine  *)
(* of its own, and what it returns is a message Update handles later, in    *)
(* the order of arrival.  Of the Model, the fields of the pipeline, of the  *)
(* preview and of the tabs are kept; the text fields, the sizes, the status *)
(* line and the spinner are left out.                                       *)

\* startSeeding calls of one session
MaxRuns == 2
\* rows of one preview
MaxPreviewRows == 3
\* preview functions started whose message is not yet handled
MaxPreviews == 2

TabGenerate == 0
TabPreview == 1
TabHistory == 2
TabHelp == 3

\* msg.String() of the keys Update tells apart; "x" is any other key
Keys == {"ctrl+c", "Q", "tab", "shift+tab", "!", "@", "#", "$",
         "J", "K", "g", "G", "enter", "x"}

KeyMsg(key) == [type |-> "KeyMsg", key |-> key, rows |-> <<>>]

\* seedDoneMsg, seedErrMsg, errMsg
Msg(type) == [type |-> type, key |-> Nil, rows |-> <<>>]

\* previewReadyMsg{rows, cols} with n rows
previewReadyMsg(n) ==
    [type |-> "previewReadyMsg", key |-> Nil, rows |-> [i \in 1..n |-> i]]

\* the messages of a pipeline
SeedMsgs == {"seedDoneMsg", "seedErrMsg"}

NewModel ==
    [ActiveTab |-> TabGenerate, IsRunning |-> FALSE, History |-> <<>>,
     PreviewRows |-> <<>>, PreviewLoading |-> FALSE, PreviewScroll |-> 0]

\* (tea.Model, tea.Cmd): the model, and the command that is started, "nil",
\* "quit" for tea.Quit, "seed" for runSeedPipeline, "preview" for the
\* function of startPreview
Ret(mm, cmd) == [m |-> mm, cmd |-> cmd]

\* the tab a key of the four handlers leads to
TabOfKey(tab, key) ==
    CASE key = "tab" -> (tab + 1) % 4
      [] key = "shift+tab" -> (tab + 3) % 4
      [] key = "!" -> TabGenerate
      [] key = "@" -> TabPreview
      [] key = "#" -> TabHistory
      [] key = "$" -> TabHelp
      [] OTHER -> tab

startSeeding(mm) == Ret([mm EXCEPT !.IsRunning = TRUE], "seed")

\* handleGenerateKey with an Enter that starts a pipeline whatever IsRunning
handleGenerateKeyUnguarded(mm, key) ==
    IF key = "enter"
    THEN startSeeding(mm)
    ELSE Ret([mm EXCEPT !.ActiveTab = TabOfKey(@, key)], "nil")

\* handleGenerateKey: Enter starts the pipeline unless one is running; the
\* other keys move between tabs or act on the text fields
handleGenerateKey(mm, key) ==
    IF key = "enter"
    THEN IF mm.IsRunning THEN Ret(mm, "nil") ELSE startSeeding(mm)
    ELSE Ret([mm EXCEPT !.ActiveTab = TabOfKey(@, key)], "nil")

startPreview(mm) == Ret([mm EXCEPT !.PreviewLoading = TRUE], "preview")

handlePreviewKey(mm, key) ==
    CASE key = "J" ->
            Ret(IF mm.PreviewScroll < Len(mm.PreviewRows) - 1
                THEN [mm EXCEPT !.PreviewScroll = @ + 1] ELSE mm, "nil")
      [] key = "K" ->
            Ret(IF mm.PreviewScroll > 0
                THEN [mm EXCEPT !.PreviewScroll = @ - 1] ELSE mm, "nil")
      [] key = "g" -> Ret([mm EXCEPT !.PreviewScroll = 0], "nil")
      [] key = "G" ->
            Ret(IF Len(mm.PreviewRows) > 0
                THEN [mm EXCEPT !.PreviewScroll = Len(mm.PreviewRows) - 1] ELSE mm, "nil")
      [] key = "enter" -> startPreview(mm)
      [] OTHER -> Ret([mm EXCEPT !.ActiveTab = TabOfKey(@, key)], "nil")

\* handleHistoryKey, less HistoryScroll
handleHistoryKey(mm, key) == Ret([mm EXCEPT !.ActiveTab = TabOfKey(@, key)], "nil")

handleHelpKey(mm, key) == Ret([mm EXCEPT !.ActiveTab = TabOfKey(@, key)], "nil")

\* HistoryEntry of a pipeline that ended
HistoryEntry(success) == [Success |-> success]

\* Model.Update
Update(mm, msg) ==
    CASE msg.type = "KeyMsg" ->
            IF msg.key \in {"ctrl+c", "Q"} THEN Ret(mm, "quit")
            ELSE (CASE mm.ActiveTab = TabGenerate -> handleGenerateKey(mm, msg.key)
                    [] mm.ActiveTab = TabPreview -> handlePreviewKey(mm, msg.key)
                    [] mm.ActiveTab = TabHistory -> handleHistoryKey(mm, msg.key)
                    [] mm.ActiveTab = TabHelp -> handleHelpKey(mm, msg.key))
      [] msg.type = "seedDoneMsg" ->
            Ret([mm EXCEPT !.IsRunning = FALSE,
                           !.History = <<HistoryEntry(TRUE)>> \o @], "nil")
      [] msg.type = "seedErrMsg" ->
            Ret([mm EXCEPT !.IsRunning = FALSE,
                           !.History = <<HistoryEntry(FALSE)>> \o @], "nil")
      [] msg.type = "previewReadyMsg" ->
            Ret([mm EXCEPT !.PreviewRows = msg.rows, !.PreviewLoading = FALSE], "nil")
      [] msg.type = "errMsg" -> Ret(mm, "nil")

\* what runSeedPipeline returns: seedErrMsg from any of its five error
\* returns, seedDoneMsg from its end
runSeedPipeline == {Msg("seedErrMsg"), Msg("seedDoneMsg")}

\* what the function of startPreview returns: errMsg, or the rows Generate
\* parsed from the answer
previewFunc == {Msg("errMsg")} \cup {previewReadyMsg(n) : n \in 0..MaxPreviewRows}

\* messages of the kinds in the inbox
InInbox(types) == Cardinality({i \in DOMAIN inbox : inbox[i].type \in types})

InitTUI ==
    /\ model = NewModel
    /\ cmds = [seed |-> 0, preview |-> 0]
    /\ inbox = <<>>
    /\ ui = "run"
    /\ started = 0
    /\ TopoIdle
    /\ JsonIdle
    /\ SeedIdle
    /\ InsIdle
    /\ PureIdle

\* a key is pressed and Update handles it; the command it returns is started
KeyPress ==
    /\ ui = "run"
    /\ \E key \in Keys :
          LET r == Update(model, KeyMsg(key))
          IN  /\ r.cmd = "seed" => started < MaxRuns
              /\ r.cmd = "preview" =>
                    cmds.preview + InInbox({"previewReadyMsg", "errMsg"}) < MaxPreviews
              /\ model' = r.m
              /\ cmds' = IF r.cmd \in {"seed", "preview"}
                         THEN [cmds EXCEPT ![r.cmd] = @ + 1]
                         ELSE cmds
              /\ ui' = IF r.cmd = "quit" THEN "quit" ELSE ui
              /\ started' = IF r.cmd = "seed" THEN started + 1 ELSE started
    /\ UNCHANGED inbox
    /\ UNCHANGED notTui

\* a runSeedPipeline call returns its message
PipelineReturns ==
    /\ ui = "run"
    /\ cmds.seed > 0
    /\ \E msg \in runSeedPipeline : inbox' = Append(inbox, msg)
    /\ cmds' = [cmds EXCEPT !.seed = @ - 1]
    /\ UNCHANGED <<model, ui, started>>
    /\ UNCHANGED notTui

\* a preview function returns its message
PreviewReturns ==
    /\ ui = "run"
    /\ cmds.preview > 0
    /\ \E msg \in previewFunc : inbox' = Append(inbox, msg)
    /\ cmds' = [cmds EXCEPT !.preview = @ - 1]
    /\ UNCHANGED <<model, ui, started>>
    /\ UNCHANGED notTui

\* Update handles the message that arrived first
HandleMessage ==
    /\ ui = "run"
    /\ inbox # <<>>
    /\ model' = Update(model, Head(inbox)).m
    /\ inbox' = Tail(inbox)
    /\ UNCHANGED <<cmds, ui, started>>
    /\ UNCHANGED notTui

NextTUI == KeyPress \/ PipelineReturns \/ PreviewReturns \/ HandleMessage

SpecTUI == InitTUI /\ [][NextTUI]_vars

\* a command that was started returns, and the program handles the messages
\* it receives
SpecTUIFair ==
    SpecTUI /\ WF_vars(PipelineReturns) /\ WF_vars(PreviewReturns) /\ WF_vars(HandleMessage)

-----------------------------------------------------------------------------
(* Properties of the orderer *)

\* table i has a column whose foreign key names `ref`
HasFK(t, ref) == \E c \in 1..Len(t.Columns) : t.Columns[c].ForeignKey = ref

UniqueNames(tbls) ==
    \A i, j \in 1..Len(tbls) : tbls[i].Name = tbls[j].Name => i = j

\* the reference graph restricted to edges between distinct declared tables
RefEdge(tbls, i, j) ==
    /\ tbls[i].Name # tbls[j].Name
    /\ HasFK(tbls[i], tbls[j].Name)

RECURSIVE ReachIn(_, _, _, _)
\* j is reached from i along at least one and at most n edges
ReachIn(tbls, i, j, n) ==
    /\ n > 0
    /\ \/ RefEdge(tbls, i, j)
       \/ \E m \in 1..Len(tbls) : RefEdge(tbls, i, m) /\ ReachIn(tbls, m, j, n - 1)

HasCycle(tbls) == \E i \in 1..Len(tbls) : ReachIn(tbls, i, i, Len(tbls))

HasSelfFK(tbls) == \E i \in 1..Len(tbls) : HasFK(tbls[i], tbls[i].Name)

InOrder(i) == \E k \in 1..Len(order) : order[k] = i

Pos(i) == CHOOSE k \in 1..Len(order) : order[k] = i

\* the schema with every self-referencing foreign key taken off its column
WithoutSelfFKs(tbls) ==
    [i \in 1..Len(tbls) |->
        [tbls[i] EXCEPT !.Columns =
            [c \in 1..Len(tbls[i].Columns) |->
                IF tbls[i].Columns[c].ForeignKey = tbls[i].Name
                THEN Column(Nil) ELSE tbls[i].Columns[c]]]]

\* C1: for a schema with distinct table names and no cycle among distinct
\* tables, every table R referenced by a foreign key of another table T stands
\* before T in the order ParseFile returns.
C1_ValidTopologicalOrder ==
    (tpc = "done" /\ UniqueNames(tables) /\ ~HasCycle(tables)) =>
        \A i, j \in 1..Len(tables) :
            RefEdge(tables, i, j) => InOrder(i) /\ InOrder(j) /\ Pos(j) < Pos(i)

\* a finished sort that had to move a referenced table in front of a table
\* declared before it, in a schema where one table has two dependencies
C1_Witness ==
    /\ tpc = "done" /\ UniqueNames(tables) /\ ~HasCycle(tables)
    /\ \E i, j \in 1..Len(tables) : i < j /\ RefEdge(tables, i, j)
    /\ \E i \in 1..Len(tables) : Len(DependsOn(tables[i])) = 2

\* C2: when distinct tables form a foreign-key cycle, ParseFile returns an
\* error instead of an order.
C2_CycleIsAnError ==
    (tpc = "done" /\ HasCycle(tables)) => perr # Nil

\* C3: the sort terminates on every table list, and the order returned equals
\* the order of the same schema with its self-referencing foreign keys removed.
C3_SelfReferenceHarmless ==
    /\ (tpc = "sort") ~> (tpc = "done")
    /\ [](tpc = "done" => order = topologicalSort(WithoutSelfFKs(tables)))

\* a finished sort of a schema with a self-referencing table and a cycle of
\* two other tables
C3_Witness ==
    /\ tpc = "done"
    /\ HasSelfFK(tables)
    /\ HasCycle(tables)
    /\ Len(order) = MaxTables

\* C4: the order ParseFile returns is a permutation of the parsed tables.
C4_OrderIsPermutation ==
    tpc = "done" =>
        /\ Len(order) = Len(tables)
        /\ {order[k] : k \in 1..Len(order)} = 1..Len(tables)

\* a column of the schema has a foreign key to a table the schema does not
\* declare
HasDangling(tbls) ==
    \E i \in 1..Len(tbls) :
        \E c \in 1..Len(tbls[i].Columns) :
            /\ tbls[i].Columns[c].ForeignKey # Nil
            /\ tbls[i].Columns[c].ForeignKey \notin Declared(tbls)

\* every parsed table is in the order ParseFile returned, once
AllTablesOrdered ==
    /\ Len(order) = Len(tables)
    /\ {order[k] : k \in 1..Len(order)} = 1..Len(tables)

\* C20: for a schema with a foreign key to an undeclared table ParseFile
\* returns every declared table, with the foreign key still on its column,
\* and tells its caller of the dangling reference.  ParseFile hands its
\* caller the tables and an error value, nothing else: the caller is told
\* when that value is not nil.
C20_DanglingReferenceWarned ==
    (tpc = "done" /\ UniqueNames(tables) /\ HasDangling(tables)) =>
        /\ AllTablesOrdered
        /\ perr # Nil

\* tables i and j are joined by no chain of references, in either direction
Unrelated(tbls, i, j) ==
    /\ i # j
    /\ ~ReachIn(tbls, i, j, Len(tbls))
    /\ ~ReachIn(tbls, j, i, Len(tbls))

\* C21: for a schema with distinct table names and no cycle, two tables
\* joined by no chain of references, in either direction, stand in the
\* order ParseFile returns as they were declared.
C21_UnrelatedKeepDeclarationOrder ==
    (tpc = "done" /\ UniqueNames(tables) /\ ~HasCycle(tables)) =>
        \A i, j \in 1..Len(tables) :
            (i < j /\ Unrelated(tables, i, j)) =>
                InOrder(i) /\ InOrder(j) /\ Pos(i) < Pos(j)

\* the names the foreign keys of a table's columns reference
FKNames(t) ==
    {t.Columns[c].ForeignKey : c \in {k \in 1..Len(t.Columns) : t.Columns[k].ForeignKey # Nil}}

\* the first column of a table whose foreign key references the name
FirstFKColumn(t, ref) ==
    CHOOSE c \in 1..Len(t.Columns) :
        /\ t.Columns[c].ForeignKey = ref
        /\ \A k \in 1..(c - 1) : t.Columns[k].ForeignKey # ref

\* a list holds the names referenced by the table's foreign keys, each
\* once, in the order in which the columns first reference them
IsFirstSeenList(t, deps) ==
    /\ {deps[k] : k \in 1..Len(deps)} = FKNames(t)
    /\ \A k, m \in 1..Len(deps) : deps[k] = deps[m] => k = m
    /\ \A k, m \in 1..Len(deps) :
          k < m => FirstFKColumn(t, deps[k]) < FirstFKColumn(t, deps[m])

\* C22: DependsOn of a table is the list of the names its foreign keys
\* reference, each once, in the order of first occurrence among the
\* columns, and the table's own name is not in it.  The sort calls it for
\* the tables of the schema it was given.
C22_DependsOnExcludesSelf ==
    tpc \in {"sort", "done"} =>
      \A i \in 1..Len(tables) :
        /\ IsFirstSeenList(tables[i], DependsOn(tables[i]))
        /\ \A k \in 1..Len(DependsOn(tables[i])) :
              DependsOn(tables[i])[k] # tables[i].Name


-----------------------------------------------------------------------------
(* Properties of the recovery parser *)

\* raw holds a "[" with a "]" somewhere after it
HasBracketPair(text) ==
    \E i, j \in 1..Len(text) : i < j /\ text[i] = "[" /\ text[j] = "]"

Holds(text, c) == \E i \in 1..Len(text) : text[i] = c

\* the call returned exactly the records recs
ReturnedRecords(recs) == jpc = "done" /\ jerr = Nil /\ rows = MapsOf(recs)

\* C5: for n >= 1 complete records followed by an incomplete record and no
\* closing bracket, the call succeeds and returns exactly the n complete
\* records, in order.
C5_TruncatedTailSalvaged ==
    Returned =>
        \A recs \in RecLists, st \in {Compact, Lines} :
            (Len(recs) >= 2 /\ input = Truncated(recs, st, FALSE))
                => ReturnedRecords(SubSeq(recs, 1, Len(recs) - 1))

\* C6: a payload that is a well-formed array of records decodes to exactly
\* those records, in order, keys and scalar values unchanged.
C6_WellFormedUnchanged ==
    Returned =>
        \A recs \in RecLists, st \in Styles :
            input = Payload(recs, st) => ReturnedRecords(recs)

\* C7: a well-formed array of n records with a trailing comma put immediately
\* before its closing bracket, or immediately before the closing brace of one
\* record, decodes to exactly the n records.
C7_TrailingSeparatorRepaired ==
    Returned =>
        \A recs \in RecLists \ {<<>>} :
            /\ \A st \in Styles :
                  input = TrailingInArray(recs, st, "before") => ReturnedRecords(recs)
            /\ \A st \in {Compact, Lines}, k \in 1..Len(recs) :
                  input = TrailingInRecord(recs, st, k) => ReturnedRecords(recs)

\* C8: when the text left by the marker and fence passes has no "[", no "]",
\* or no "]" after its first "[", the call returns an error and no rows.
C8_NoArrayIsAnError ==
    (Returned /\ ~HasBracketPair(raw)) =>
        jpc = "failed" /\ jerr = ErrNoArray /\ rows = Nil

\* a call that failed on a text holding both brackets, the closing one first
C8_Witness ==
    /\ jpc = "failed"
    /\ ~HasBracketPair(raw)
    /\ Holds(raw, "[")
    /\ Holds(raw, "]")

\* C9: for <think>R</think>P with P a well-formed payload, the call returns
\* what it returns for P alone, whatever the reasoning text R holds.
C9_ReasoningBlockStripped ==
    Returned =>
        \A r \in Reasonings, recs \in RecLists :
            input = OpenThink \o r \o CloseThink \o Payload(recs, Compact)
                => LET alone == parseJSONResponse(Payload(recs, Compact))
                   IN  jerr = alone.err /\ (jerr = Nil => rows = alone.rows)

\* a call that returned the records of P for a reasoning text with brackets
C9_Witness ==
    /\ jpc = "done"
    /\ \E recs \in RecLists :
          /\ Len(recs) = 2
          /\ input = OpenThink \o <<"[", "1", "]">> \o CloseThink
                         \o Payload(recs, Compact)
          /\ rows = MapsOf(recs)

\* C23: for n complete records followed by one incomplete record and the
\* closing bracket, the call succeeds and returns exactly the n complete
\* records, in order.
C23_OnlyIncompleteRecordRemoved ==
    Returned =>
        \A recs \in RecLists \ {<<>>}, st \in {Compact, Lines} :
            input = Truncated(recs, st, TRUE)
                => ReturnedRecords(SubSeq(recs, 1, Len(recs) - 1))

\* the trimmed text has an opening reasoning marker and no closing one
OpenMarkerOnly(text) ==
    /\ Index(TrimSpace(text), OpenThink) # -1
    /\ Index(TrimSpace(text), CloseThink) = -1

\* the part of the trimmed text before its first opening marker
BeforeOpenMarker(text) ==
    Slice(TrimSpace(text), 0, Index(TrimSpace(text), OpenThink))

\* C24: when the trimmed text has an opening reasoning marker and no
\* closing one, the text handed to the fence pass is the part before the
\* first opening marker (its surrounding white space trimmed, as every pass
\* trims it), the call returns what it returns for that part alone, and when
\* that part holds no array the call fails with the no-array error whatever
\* follows the marker.
C24_OpenMarkerCutsToEnd ==
    OpenMarkerOnly(input) =>
        /\ jpc = "fence" => raw = TrimSpace(BeforeOpenMarker(input))
        /\ Returned =>
              [rows |-> rows, err |-> jerr] = parseJSONResponse(BeforeOpenMarker(input))
        /\ (Returned /\ ~HasBracketPair(BeforeOpenMarker(input))) =>
              jpc = "failed" /\ jerr = ErrNoArray /\ rows = Nil

\* a call that failed with the no-array error on a text whose only payload
\* stands after the opening marker
C24_Witness ==
    /\ OpenMarkerOnly(input)
    /\ Returned
    /\ \E r \in Reasonings : input = OpenThink \o r \o Payload(<<RecX(1)>>, Compact)
    /\ BeforeOpenMarker(input) = <<>>
    /\ jpc = "failed" /\ jerr = ErrNoArray

-----------------------------------------------------------------------------
(* Properties of a run over the tables *)

\* the run is over
RunOver == spc \in {"done", "exit", "errmsg", "panic"}

\* the generation step was called for table t
Generated(t) == \E k \in 1..Len(generated) : generated[k] = t

Reported(what) == \E k \in 1..Len(errs) : errs[k].what = what

\* C10: when the answer for one table is not parsed and nothing else fails
\* (no request, no insert), the run still calls the generation step for every
\* other table of its order.
C10_ParseFailureDoesNotAbort ==
    (/\ RunOver
     /\ Reported("parse")
     /\ ~Reported("call") /\ ~Reported("insert") /\ spc # "panic")
        => \A u \in 1..NumTables : Generated(u)

\* the run has started on the table at position t of its order: a
\* reference-ID query or the generation step for it
Started(t) ==
    \/ Generated(t)
    \/ \E k \in 1..Len(dbops) : dbops[k].op = "fetch" /\ dbops[k].t = t

\* the steps of the run follow the order, one table at a time
OneAtATime ==
    /\ \A k \in 1..Len(generated) : generated[k] = k
    /\ \A j, k \in 1..Len(dbops) :
          (j < k /\ dbops[j].op # "open") => dbops[j].t <= dbops[k].t

\* the tables of the run's order that table t references, itself left out
RefsInOrder(t) ==
    {c.ForeignKey : c \in {cfg.order[t].Columns[k] : k \in 1..Len(cfg.order[t].Columns)}}
        \cap ({cfg.order[u].Name : u \in 1..NumTables} \ {cfg.order[t].Name})

\* C11: a seed run over the whole schema takes the tables one at a time in
\* the order, and starts on a table (reference-ID query, generation) only
\* when every table it references stands earlier in the order and the loop
\* is past it, all its batches committed.
C11_ReferencedTablesFirst ==
    (cfg.driver \in {"runSeed", "runSeedPipeline"} /\ cfg.tableName = Nil) =>
        /\ OneAtATime
        /\ \A t \in 1..NumTables :
              Started(t) =>
                  \A r \in RefsInOrder(t) :
                      \E u \in 1..(t - 1) : cfg.order[u].Name = r /\ u < si

\* C13: with --dry-run, whatever the other flags, runSeed asks nothing of
\* the database: no connection is opened, no reference-ID query and no
\* INSERT is issued, and no row is committed.
C13_DryRunTouchesNoDatabase ==
    (cfg.driver = "runSeed" /\ cfg.dryRun) =>
        /\ dbops = <<>>
        /\ \A t \in 1..NumTables : inserted[t] = 0

\* a finished dry run with --db given, over two tables of which the second
\* references the first: both were generated
C13_Witness ==
    /\ cfg.driver = "runSeed"
    /\ cfg.dryRun
    /\ cfg.dbConn
    /\ spc = "done"
    /\ NumTables = 2
    /\ cfg.order[2].Columns[2].ForeignKey = cfg.order[1].Name
    /\ generated = <<1, 2>>

\* the batch loop of runSeed is at its head
InBatchLoop == spc = "insert" /\ cfg.driver = "runSeed"

\* C28: for every row count and every batch size the batch loop of runSeed
\* comes to an end: by its condition, and the next table follows, or by a
\* batch that fails, and the run exits.
C28_BatchLoopTerminates == InBatchLoop ~> (spc \in {"gen", "exit"})

-----------------------------------------------------------------------------
(* Properties of an insert call *)

\* the call returned an error
InsertFailed == ipc = "returned" /\ iret.err # Nil

\* C12: when the call returns, the count it returns is the number of rows
\* committed; when batch k failed, no row of batch k is committed and every
\* row of the batches before it is.
C12_BatchIsATransaction ==
    ipc = "returned" =>
        /\ iret.n = Cardinality(idb)
        /\ iret.err # Nil =>
              /\ idb \cap ((ioff + 1)..iend) = {}
              /\ 1..ioff \subseteq idb
        /\ iret.err = Nil => idb = 1..icfg.rows

\* SQLiteInserter.Insert returned an error from its second batch, whose
\* commit failed after its row was executed; the first batch is committed
C12_Witness ==
    /\ InsertFailed
    /\ icfg.fn = "SQLiteInserter.Insert"
    /\ iret.err = "commit"
    /\ ilast.n = 1
    /\ ioff = 2
    /\ iend = 3
    /\ iret.n = 2
    /\ idb = {1, 2}

-----------------------------------------------------------------------------
(* Properties of the schema parser *)

\* C14: normalizing what normalizeSQL returned gives the same text again.
C14_NormalizeIdempotent ==
    (ppc = "normalizeSQL" /\ Len(res) = 2) => res[2] = res[1]

\* the integer/serial family of raw type tokens
IntegerFamily ==
    { <<"i", "n", "t">>,
      <<"i", "n", "t", "e", "g", "e", "r">>,
      <<"s", "m", "a", "l", "l", "i", "n", "t">>,
      <<"b", "i", "g", "i", "n", "t">>,
      <<"s", "e", "r", "i", "a", "l">>,
      <<"b", "i", "g", "s", "e", "r", "i", "a", "l">> }

\* C17: normalizeType returns one of the five semantic types, the same one
\* for a token in any letter case, and integer for every token of the
\* integer/serial family.
C17_TypeFamilies ==
    (ppc = "normalizeType" /\ res # <<>>) =>
        /\ res[1] \in SemanticTypes
        /\ res[1] = normalizeType(ToLower(arg))
        /\ ToLower(arg) \in IntegerFamily => res[1] = "integer"

\* what the sub-tokens toks of a column definition set
FlagsOf(toks) ==
    [NotNull    |-> "NotNull" \in toks,
     Unique     |-> "Unique" \in toks,
     PrimaryKey |-> "PrimaryKey" \in toks,
     CheckIn    |-> IF "CheckIn" \in toks THEN << <<"x">>, <<"y">> >> ELSE <<>>,
     ForeignKey |-> IF "ForeignKey" \in toks
                    THEN [RefTable |-> <<"t">>, RefColumn |-> <<"c">>]
                    ELSE NilForeignKey]

\* C16: a column definition has each flag set exactly when its sub-token
\* stands after the column's name and type, whatever the column is named.
C16_FlagsFollowSubTokens ==
    (ppc = "parseColumnDef" /\ res # <<>>) =>
        \A name \in ColumnNames, typ \in ColumnTypes, toks \in SUBSET DOMAIN SubTokens :
            arg = ColumnDef(name, typ, toks) =>
                /\ res[1].Name = name
                /\ \A f \in DOMAIN SubTokens : res[1][f] = FlagsOf(toks)[f]

IsWellFormed(clause) == clause \in WellFormedClauses

\* the column name a well-formed column definition declares
DeclaredName(clause) == Slice(clause, 0, Index(clause, <<" ">>))

NeverCloses(span) ==
    /\ Index(span, <<"(">>) # -1
    /\ \A i \in Index(span, <<"(">>)..(Len(span) - 1) :
          ParenDepth(span, Index(span, <<"(">>), i + 1) > 0

\* the names of the columns of a parsed table
ColumnNamesOf(t) == {t.Columns[k].Name : k \in 1..Len(t.Columns)}

\* C25: for a declaration whose parentheses never come back to depth 0
\* within its span, extractParenBlock returns all of the span after its
\* first "("; ParseFile returns the table with the columns declared before
\* the declaration breaks off, in order, and with no column of a following
\* declaration; the following declaration is a table of its own, parsed as
\* it is parsed alone.
C25_UnbalancedBodyIsParsed ==
    (ppc = "ParseFile" /\ NeverCloses(FirstSpan(BrokenText(arg)))) =>
        /\ res[1] = SliceFrom(FirstSpan(BrokenText(arg)),
                              Index(FirstSpan(BrokenText(arg)), <<"(">>) + 1)
        /\ Len(res) = 2 =>
              /\ res[2].err = Nil
              /\ Len(res[2].tables) = 1 + Len(arg.second)
              /\ res[2].tables[1].Name = <<"t">>
              /\ Len(res[2].tables[1].Columns) =
                    Len(arg.first) + (IF arg.shape = "InnerOpen" THEN 1 ELSE 0)
              /\ \A k \in 1..Len(arg.first) :
                    res[2].tables[1].Columns[k] = parseColumnDef(arg.first[k])
              /\ arg.second # <<>> =>
                    res[2].tables[2] =
                        [Name |-> <<"u">>, Columns |-> <<parseColumnDef(arg.second[1])>>]

\* ParseFile has returned for a declaration of two columns that lacks its
\* closing parenthesis and is followed by a second declaration
C25_Witness ==
    /\ ppc = "ParseFile" /\ Len(res) = 2
    /\ NeverCloses(FirstSpan(BrokenText(arg)))
    /\ arg.shape = "NoClose" /\ Len(arg.first) = 2 /\ arg.second # <<>>
    /\ Len(res[2].tables) = 2
    /\ Len(res[2].tables[1].Columns) = 2

\* C26: a table-level PRIMARY KEY or FOREIGN KEY clause written after
\* CONSTRAINT <name> leaves the table with the same columns as the clause
\* written without it.
C26_ConstraintPrefixSameEffect ==
    (ppc = "ParseFile" /\ Len(res) = 2) => res[2] = res[1]

\* C27: a table-level PRIMARY KEY (c1, ..., ck) clause leaves the table with
\* the columns its column clauses declare, in order, each as its clause
\* declares it but for primary_key, which is set on the columns whose name is
\* in the list.
C27_PrimaryKeyClauseFrame ==
    (ppc = "ParseFile" /\ res # <<>>) =>
        \A names \in PrimaryKeyLists :
            arg.clause = PrimaryKeyClause(names) =>
                /\ res[1].err = Nil
                /\ Len(res[1].tables) = 1
                /\ Len(res[1].tables[1].Columns) = Len(arg.cols)
                /\ \A k \in 1..Len(arg.cols) :
                      res[1].tables[1].Columns[k] =
                          [parseColumnDef(arg.cols[k]) EXCEPT
                              !.PrimaryKey =
                                  @ \/ \E n \in 1..Len(names) :
                                          names[n] = parseColumnDef(arg.cols[k]).Name]

-----------------------------------------------------------------------------
(* Properties of the structural model *)

\* an integer primary key, taken as assigned by the server
IsAuto(c) == c.PrimaryKey /\ c.Type = "integer"

\* C18: NonAutoColumns returns the columns of the table in their order
\* without the integer primary keys, and only without them.
C18_NonAutoColumnsExact ==
    (ppc = "NonAutoColumns" /\ res # <<>>) =>
        /\ res[1] = NonAutoColumnsStrict(arg)
        /\ \A k \in 1..Len(res[1]) : ~IsAuto(res[1][k])

\* the names of the integer primary keys of table t of the run
AutoNames(t) ==
    {cfg.order[t].Columns[k].Name :
        k \in {j \in 1..Len(cfg.order[t].Columns) : IsAuto(cfg.order[t].Columns[j])}}

\* C19: no INSERT of a seed run names an integer primary key of its table
\* in its column list.
C19_InsertColumnsAreNonAuto ==
    \A i \in 1..Len(dbops) :
        dbops[i].op = "insert" =>
            \A k \in 1..Len(dbops[i].columns) :
                dbops[i].columns[k] \notin AutoNames(dbops[i].t)

-----------------------------------------------------------------------------
(* Properties of the terminal front-end *)

\* pipelines in flight: running, or returned with their message not handled
SeedPending == cmds.seed + InInbox(SeedMsgs)

\* at most one pipeline is in flight, IsRunning says whether one is, and
\* every pipeline that is no longer in flight left one history entry
OnePipeline ==
    /\ SeedPending <= 1
    /\ model.IsRunning <=> SeedPending = 1
    /\ Len(model.History) + SeedPending = started

\* the history changes by one entry put in front, when the message of a
\* pipeline is handled, and IsRunning is false afterwards
HistoryPrepended ==
    model'.History # model.History =>
        /\ inbox # <<>>
        /\ Head(inbox).type \in SeedMsgs
        /\ Tail(model'.History) = model.History
        /\ ~model'.IsRunning

\* C29: at most one seed pipeline is in flight: Enter starts none while
\* IsRunning, IsRunning is true from the start of a pipeline until its
\* seedDoneMsg or seedErrMsg is handled, every pipeline delivers one such
\* message, and handling it clears IsRunning and prepends one history entry.
C29_OnePipelineInFlight ==
    /\ []OnePipeline
    /\ [][HistoryPrepended]_vars
    /\ model.IsRunning ~> (~model.IsRunning \/ ui = "quit")

\* two pipelines ran one after the other, one ended well and one did not
C29_Witness ==
    /\ Len(model.History) = 2
    /\ model.History[1].Success # model.History[2].Success
    /\ ~model.IsRunning

\* C30: the preview scroll position is a valid row index after every key
\* and message: never negative, and below len(PreviewRows) when there are
\* rows.
C30_PreviewScrollInRange ==
    /\ model.PreviewScroll >= 0
    /\ model.PreviewRows # <<>> => model.PreviewScroll < Len(model.PreviewRows)

====
